---------------------------- MODULE Spec2Model ----------------------------
(***************************************************************************)
(* A model of quickjs++ (BowDown097/quickjspp): the value handle, the      *)
(* conversion traits, the function wrapper and the class registrar.        *)
(*                                                                         *)
(* The module holds one state machine per component.  Each has its own     *)
(* variables, its own Init/Next and its own specification; a component's   *)
(* specification leaves the other components' variables at their initial   *)
(* value.                                                                  *)
(*   SpecValue    qjs::value (copy, move, assign, release, destroy)        *)
(*   SpecConv     js_traits<Integer>, js_traits<std::optional<Integer>>    *)
(*   SpecCall     detail::wrap_call / apply_unwrapped / unwrap_args        *)
(*   SpecReg      js_traits<std::shared_ptr<T>> (class ids, cast tables)   *)
(***************************************************************************)
EXTENDS Integers, Sequences, FiniteSets, TLC

VARIABLES
    \* ---- qjs::value -----------------------------------------------------
    rc,          \* engine: reference count of each runtime value
    handles,     \* the qjs::value objects: [live, ctx, v]
    raws,        \* per value: JSValue references returned by release() that
                 \* the caller still holds
    noCtxDups,   \* per value: JS_DupValue calls made by copying a handle
                 \* whose ctx is null
    \* ---- the context's exception state ----------------------------------
    pending,     \* the exception pending in the JSContext ("none" when none)
    \* ---- js_traits conversions -------------------------------------------
    conv,        \* the last conversion: what was converted and its outcome
    \* ---- wrapped functions ------------------------------------------------
    call,        \* the last call of a wrapped function: the callable, the
                 \* runtime call and what wrap_call did
    \* ---- js_traits<std::shared_ptr<T>> -----------------------------------
    qjs_class_id,       \* per class: its JSClassID, 0 when none is allocated
    class_count,        \* the runtime's last allocated JSClassID
    js_classes,         \* classes defined in the runtime (JS_NewClass)
    ptr_cast_fcn_map,   \* per class: the class ids its cast table has
    register_with_base, \* per class: the classes its hook registers with
    edges,              \* the derivations registered so far, <<T, B>>
    top_down,           \* whether they were registered base first
    uw,                 \* the last unwrap of a shared pointer
    \* ---- js_traits<ctor_wrapper<T, Args...>> -----------------------------
    ctor,        \* the last call of a registered constructor
    \* ---- js_traits<T*> ---------------------------------------------------
    pb,          \* the bound objects' shared-pointer slots, and the last
                 \* wrap or unwrap of a pointer
    \* ---- qjs::module -------------------------------------------------------
    md,          \* the module: its export table, the engine's export
                 \* entries and the last run of its initializer
    \* ---- callbacks called by the engine ------------------------------------
    bd,          \* the last call of a callback by the engine
    \* ---- container conversions ---------------------------------------------
    cn,          \* the last container conversion and the references it took
    \* ---- property_traits<Integer> ------------------------------------------
    pk,          \* the last access to a property with an integer key
    \* ---- class identities across runtimes ----------------------------------
    ci,          \* the class ids, each runtime's classes, the mark offsets
                 \* and the last step
    \* ---- shared ownership --------------------------------------------------
    ow,          \* the control blocks, native holders, bound objects and class state
    \* ---- promise rejections ------------------------------------------------
    rj,          \* the rejection callback, the promises and the tracker's last call
    \* ---- qjs::exception ----------------------------------------------------
    ex,          \* the exception objects and the last step on them
    \* ---- value::invoke_then ------------------------------------------------
    th,          \* the promises, the calls of invoke_then and the job queue
    \* ---- the job queue -----------------------------------------------------
    jq,          \* the runtime's jobs and the last call on the queue
    \* ---- unwrapped functions -----------------------------------------------
    fc,          \* the function's references and the callables unwrapped from it
    \* ---- wrap of mapped containers -----------------------------------------
    wm,          \* the last wrap of a mapped container and the references of its values
    \* ---- the collector -----------------------------------------------------
    gc           \* the objects of a class, under construction or bound, and what the collector read

varsValue == <<rc, handles, raws, noCtxDups>>
varsConv == <<pending, conv>>
varsReg == <<qjs_class_id, class_count, js_classes, ptr_cast_fcn_map,
            register_with_base, edges, top_down, uw>>
vars == <<rc, handles, raws, noCtxDups, pending, conv, call, qjs_class_id,
         class_count, js_classes, ptr_cast_fcn_map, register_with_base,
         edges, top_down, uw, ctor, pb, md, bd, cn, pk, ci, ow, rj, ex, th,
         jq, fc, wm, gc>>

\* What each component leaves alone.
varsNotValue == <<pending, conv, call, varsReg, ctor, pb, md, bd, cn, pk, ci, ow, rj, ex, th, jq, fc, wm, gc>>
varsNotConv == <<rc, handles, raws, noCtxDups, call, varsReg, ctor, pb, md, bd, cn, pk, ci, ow, rj, ex, th, jq, fc, wm, gc>>
varsNotCall == <<rc, handles, raws, noCtxDups, conv, varsReg, ctor, pb, md, bd, cn, pk, ci, ow, rj, ex, th, jq, fc, wm, gc>>
varsNotReg == <<rc, handles, raws, noCtxDups, pending, conv, call, ctor, pb, md, bd, cn, pk, ci, ow, rj, ex, th, jq, fc, wm, gc>>
varsNotCtor == <<rc, handles, raws, noCtxDups, conv, call, varsReg, pb, md, bd, cn, pk, ci, ow, rj, ex, th, jq, fc, wm, gc>>
varsNotPtr == <<rc, handles, raws, noCtxDups, conv, call, varsReg, ctor, md, bd, cn, pk, ci, ow, rj, ex, th, jq, fc, wm, gc>>
varsNotMod == <<rc, handles, raws, noCtxDups, conv, call, varsReg, ctor, pb, bd, cn, pk, ci, ow, rj, ex, th, jq, fc, wm, gc>>
varsNotBnd == <<rc, handles, raws, noCtxDups, conv, call, varsReg, ctor, pb,
    md, cn, pk, ci, ow, rj, ex, th, jq, fc, wm, gc>>
varsNotCn == <<rc, handles, raws, noCtxDups, conv, call, varsReg, ctor, pb,
    md, bd, pk, ci, ow, rj, ex, th, jq, fc, wm, gc>>
varsNotProp == <<rc, handles, raws, noCtxDups, conv, call, varsReg, ctor, pb,
    md, bd, cn, ci, ow, rj, ex, th, jq, fc, wm, gc>>
varsNotCls == <<rc, handles, raws, noCtxDups, conv, call, varsReg, ctor, pb,
    md, bd, cn, pk, ow, rj, ex, th, jq, fc, wm, gc>>
varsNotOwn == <<rc, handles, raws, noCtxDups, conv, call, varsReg, ctor, pb,
    md, bd, cn, pk, ci, rj, ex, th, jq, fc, wm, gc>>
varsNotRej == <<rc, handles, raws, noCtxDups, pending, conv, call, varsReg,
    ctor, pb, md, bd, cn, pk, ci, ow, ex, th, jq, fc, wm, gc>>
varsNotExc == <<rc, handles, raws, noCtxDups, conv, call, varsReg, ctor, pb,
    md, bd, cn, pk, ci, ow, rj, th, jq, fc, wm, gc>>
varsNotThen == <<rc, handles, raws, noCtxDups, conv, call, varsReg, ctor, pb,
    md, bd, cn, pk, ci, ow, rj, ex, jq, fc, wm, gc>>
varsNotJob == <<rc, handles, raws, noCtxDups, conv, call, varsReg, ctor, pb,
    md, bd, cn, pk, ci, ow, rj, ex, th, fc, wm, gc>>
varsNotFn == <<rc, handles, raws, noCtxDups, pending, conv, call, varsReg,
    ctor, pb, md, bd, cn, pk, ci, ow, rj, ex, th, jq, wm, gc>>
varsNotWm == <<rc, handles, raws, noCtxDups, conv, call, varsReg, ctor, pb,
    md, bd, cn, pk, ci, ow, rj, ex, th, jq, fc, gc>>
varsNotGc == <<rc, handles, raws, noCtxDups, pending, conv, call, varsReg,
    ctor, pb, md, bd, cn, pk, ci, ow, rj, ex, th, jq, fc, wm>>

---------------------------------------------------------------------------
(***************************************************************************)
(* qjs::value                                                              *)
(***************************************************************************)

\* Number of qjs::value objects of the model.
NumHandles == 2
\* References to each runtime value held by the engine before any handle exists.
BaseRefs == 1
\* Cap on a reference count (copies of a context-less handle leak without bound).
MaxRefs == 3

Handle == 1 .. NumHandles

\* The runtime values handles refer to: two objects and a module record
\* (JS_TAG_MODULE), which ~value() treats differently.
RtValue == {"obj1", "obj2", "module"}

IsModuleTag(v) == v = "module"

\* A destroyed (or never constructed) qjs::value.
NoHandle == [live |-> FALSE, ctx |-> FALSE, v |-> "obj1"]

\* JS_DupValue(ctx, v): one more reference, whatever ctx is.
DupValue(r, v) == [r EXCEPT ![v] = @ + 1]

\* JS_FreeValue(ctx, v): one reference less.
FreeValue(r, v) == [r EXCEPT ![v] = @ - 1]

\* A plausible slip: a destructor that frees without looking at ctx.
DtorFreesAlways(r, h) ==
    IF ~IsModuleTag(h.v) THEN FreeValue(r, h.v) ELSE r

\* value::~value(): if (ctx && JS_VALUE_GET_TAG(v) != JS_TAG_MODULE) JS_FreeValue(ctx, v)
Dtor(r, h) ==
    IF h.ctx /\ ~IsModuleTag(h.v) THEN FreeValue(r, h.v) ELSE r

\* value(const value& val): ctx = val.ctx; v = JS_DupValue(ctx, val.v)
CopyOf(src) == [live |-> TRUE, ctx |-> src.ctx, v |-> src.v]

\* value(value&& val): ctx(nullptr); std::swap(ctx, val.ctx); v = val.v
MoveOf(src) == [live |-> TRUE, ctx |-> src.ctx, v |-> src.v]
MovedFrom(src) == [src EXCEPT !.ctx = FALSE]

Owners(v) == {h \in Handle : handles[h].live /\ handles[h].ctx /\ handles[h].v = v}

InitValue ==
    /\ rc = [v \in RtValue |-> BaseRefs]
    /\ handles = [h \in Handle |-> NoHandle]
    /\ raws = [v \in RtValue |-> 0]
    /\ noCtxDups = [v \in RtValue |-> 0]

\* js_traits<value>::unwrap: value(ctx, JS_DupValue(ctx, val)), a new handle
\* owning a new reference.
Construct(h, v) ==
    /\ ~handles[h].live
    /\ rc[v] < MaxRefs
    /\ rc' = DupValue(rc, v)
    /\ handles' = [handles EXCEPT ![h] = [live |-> TRUE, ctx |-> TRUE, v |-> v]]
    /\ UNCHANGED <<raws, noCtxDups>>
    /\ UNCHANGED varsNotValue

\* value(JSContext*, JSValue&&) on a JSValue that release() returned: the new
\* handle takes the caller's reference over.
Adopt(h, v) ==
    /\ ~handles[h].live
    /\ raws[v] > 0
    /\ raws' = [raws EXCEPT ![v] = @ - 1]
    /\ handles' = [handles EXCEPT ![h] = [live |-> TRUE, ctx |-> TRUE, v |-> v]]
    /\ UNCHANGED <<rc, noCtxDups>>
    /\ UNCHANGED varsNotValue

\* value b(a);
CopyConstruct(h, s) ==
    /\ ~handles[h].live /\ handles[s].live
    /\ rc[handles[s].v] < MaxRefs
    /\ rc' = DupValue(rc, handles[s].v)
    /\ handles' = [handles EXCEPT ![h] = CopyOf(handles[s])]
    /\ noCtxDups' = IF handles[s].ctx THEN noCtxDups
                    ELSE [noCtxDups EXCEPT ![handles[s].v] = @ + 1]
    /\ UNCHANGED raws
    /\ UNCHANGED varsNotValue

\* value b(std::move(a));
MoveConstruct(h, s) ==
    /\ ~handles[h].live /\ handles[s].live
    /\ handles' = [handles EXCEPT ![h] = MoveOf(handles[s]),
                                  ![s] = MovedFrom(handles[s])]
    /\ UNCHANGED <<rc, raws, noCtxDups>>
    /\ UNCHANGED varsNotValue

\* a = b;  value& operator=(value val): the parameter is a copy of b, the two
\* are swapped, and the parameter (now a's old state) is destroyed.
AssignCopy(d, s) ==
    /\ handles[d].live /\ handles[s].live
    /\ rc[handles[s].v] < MaxRefs
    /\ LET val == CopyOf(handles[s])
           r1  == DupValue(rc, handles[s].v)
       IN /\ handles' = [handles EXCEPT ![d] = val]
          /\ rc' = Dtor(r1, handles[d])
    /\ noCtxDups' = IF handles[s].ctx THEN noCtxDups
                    ELSE [noCtxDups EXCEPT ![handles[s].v] = @ + 1]
    /\ UNCHANGED raws
    /\ UNCHANGED varsNotValue

\* a = std::move(b);  the parameter is move-constructed from b.
AssignMove(d, s) ==
    /\ handles[d].live /\ handles[s].live
    /\ LET val   == MoveOf(handles[s])
           after == [handles EXCEPT ![s] = MovedFrom(handles[s])]
       IN /\ handles' = [after EXCEPT ![d] = val]
          /\ rc' = Dtor(rc, after[d])
    /\ UNCHANGED <<raws, noCtxDups>>
    /\ UNCHANGED varsNotValue

\* JSValue x = a.release();  ctx = nullptr; return v.  The caller holds what
\* a held.
Release(h) ==
    /\ handles[h].live
    /\ handles' = [handles EXCEPT ![h].ctx = FALSE]
    /\ raws' = IF handles[h].ctx THEN [raws EXCEPT ![handles[h].v] = @ + 1] ELSE raws
    /\ UNCHANGED <<rc, noCtxDups>>
    /\ UNCHANGED varsNotValue

\* The caller frees a JSValue it got from release(): JS_FreeValue(ctx, x).
FreeRaw(v) ==
    /\ raws[v] > 0
    /\ raws' = [raws EXCEPT ![v] = @ - 1]
    /\ rc' = FreeValue(rc, v)
    /\ UNCHANGED <<handles, noCtxDups>>
    /\ UNCHANGED varsNotValue

\* A handle goes out of scope.
Destroy(h) ==
    /\ handles[h].live
    /\ rc' = Dtor(rc, handles[h])
    /\ handles' = [handles EXCEPT ![h] = NoHandle]
    /\ UNCHANGED <<raws, noCtxDups>>
    /\ UNCHANGED varsNotValue

NextValue ==
    \/ \E h \in Handle, v \in RtValue : Construct(h, v)
    \/ \E h \in Handle, v \in RtValue : Adopt(h, v)
    \/ \E h, s \in Handle : CopyConstruct(h, s)
    \/ \E h, s \in Handle : MoveConstruct(h, s)
    \/ \E d, s \in Handle : AssignCopy(d, s)
    \/ \E d, s \in Handle : AssignMove(d, s)
    \/ \E h \in Handle : Release(h)
    \/ \E v \in RtValue : FreeRaw(v)
    \/ \E h \in Handle : Destroy(h)


\* ---- C1 ------------------------------------------------------------------

RefCountIs(v, n) == rc[v] = BaseRefs + n

\* A step that destroys a handle that owns nothing (moved-from or released).
DestroysNonOwner ==
    \E h \in Handle : handles[h].live /\ ~handles[h].ctx /\ ~handles'[h].live

\* C1 as stated: through every sequence of operations on handles that have a
\* context, the reference count of a value is its count before the handles
\* were made plus the number of live handles that own it (so it is back at
\* the start once every handle is released or destroyed).
C1_CountIsBasePlusOwners ==
    \A v \in RtValue :
        noCtxDups[v] = 0 => RefCountIs(v, Cardinality(Owners(v)))

\* C1 amended: for a value that is not a module record, through every
\* sequence of operations on handles that have a context, the reference
\* count is its count before the handles were made, plus the number of live
\* handles that own it, plus the number of references release() handed to
\* the caller that the caller has neither freed nor put in a handle again;
\* and destroying a moved-from or released handle changes no count.
C1_RefCount ==
    /\ [](\A v \in RtValue :
            (~IsModuleTag(v) /\ noCtxDups[v] = 0)
                => RefCountIs(v, Cardinality(Owners(v)) + raws[v]))
    /\ [][DestroysNonOwner => rc' = rc]_varsValue

\* Witness: a handle made on obj1 was released or moved from, what it held
\* was freed, and the count of obj1 is back at its start.
C1_Witness ==
    /\ \E h \in Handle : handles[h].live /\ ~handles[h].ctx /\ handles[h].v = "obj1"
    /\ Owners("obj1") = {}
    /\ raws["obj1"] = 0 /\ noCtxDups["obj1"] = 0
    /\ rc["obj1"] = BaseRefs

---------------------------------------------------------------------------
(***************************************************************************)
(* js_traits<Integer> and js_traits<std::optional<Integer>>                *)
(*                                                                         *)
(* The integer types keep their order of widths, scaled down so that every *)
(* value of every type can be enumerated: 8, 16, 32 and 64 bits are 3, 4,  *)
(* 5 and 8 bits here, and the 53-bit significand of a double (wider than   *)
(* 32 bits, narrower than the 63 value bits of an int64) is 6 bits.  All   *)
(* arithmetic is modulo 2^w of the scaled width w.                         *)
(***************************************************************************)

RECURSIVE Pow2(_)
Pow2(k) == IF k = 0 THEN 1 ELSE 2 * Pow2(k - 1)

\* The integral types js_traits<Integer> is instantiated for.
IntType == {"int8", "uint8", "int16", "uint16", "int32", "uint32", "int64", "uint64"}

\* sizeof(Integer)
SizeOf(T) ==
    CASE T \in {"int8", "uint8"}   -> 1
      [] T \in {"int16", "uint16"} -> 2
      [] T \in {"int32", "uint32"} -> 4
      [] T \in {"int64", "uint64"} -> 8

\* std::is_unsigned_v<Integer>
IsUnsigned(T) == T \in {"uint8", "uint16", "uint32", "uint64"}

\* Width in bits of a type of the given sizeof, scaled.
ScaledBits(size) ==
    CASE size = 1 -> 3
      [] size = 2 -> 4
      [] size = 4 -> 5
      [] size = 8 -> 8

\* Significand bits of a double, scaled: every 32-bit value is exact, the
\* largest 64-bit values are not.
MantBits == ScaledBits(4) + 1

\* std::numeric_limits<T>::min() and max()
MinOfBits(w, unsigned) == IF unsigned THEN 0 ELSE -Pow2(w - 1)
MaxOfBits(w, unsigned) == IF unsigned THEN Pow2(w) - 1 ELSE Pow2(w - 1) - 1
MinOf(T) == MinOfBits(ScaledBits(SizeOf(T)), IsUnsigned(T))
MaxOf(T) == MaxOfBits(ScaledBits(SizeOf(T)), IsUnsigned(T))

\* The values of a native integer type.
ValuesOf(T) == MinOf(T) .. MaxOf(T)

\* The fixed-width types the engine's conversions write to.
Int32Min == MinOfBits(ScaledBits(4), FALSE)
Int32Max == MaxOfBits(ScaledBits(4), FALSE)
Uint32Max == MaxOfBits(ScaledBits(4), TRUE)
Int64Min == MinOfBits(ScaledBits(8), FALSE)
Int64Max == MaxOfBits(ScaledBits(8), FALSE)

\* std::in_range<R>(x): x, as a mathematical integer, is a value of R.
InRange(lo, hi, x) == lo <= x /\ x <= hi

\* Two's complement wrap of a mathematical integer to w bits, signed or unsigned.
WrapUnsigned(n, w) == n % Pow2(w)
WrapSigned(n, w) ==
    LET u == n % Pow2(w)
    IN IF u >= Pow2(w - 1) THEN u - Pow2(w) ELSE u

\* Number of bits of a positive integer.
RECURSIVE BitLen(_)
BitLen(n) == IF n = 0 THEN 0 ELSE 1 + BitLen(n \div 2)

Abs(n) == IF n < 0 THEN -n ELSE n

\* (double)v for an integer v: exact up to MantBits bits, else rounded to the
\* nearest representable value, ties to even.
ToDouble(v) ==
    LET a     == Abs(v)
        shift == BitLen(a) - MantBits
    IN IF shift <= 0 THEN v
       ELSE LET unit == Pow2(shift)
                q    == a \div unit
                r    == a % unit
                up   == (2 * r > unit) \/ (2 * r = unit /\ q % 2 = 1)
                m    == (IF up THEN q + 1 ELSE q) * unit
            IN IF v < 0 THEN -m ELSE m

\* An integer a double holds exactly.
IsDouble(n) == ToDouble(n) = n

\* Largest magnitude of the runtime numbers of the model: beyond the 64-bit range.
MaxNumber == Pow2(ScaledBits(8) + 1)

\* Runtime values the conversions are given: integer-valued numbers (a
\* JS_TAG_INT or a JS_TAG_FLOAT64), null, and a Symbol, which no conversion
\* to a number accepts.
JsNum(n) == [tag |-> "num", n |-> n]
JsNull == [tag |-> "null", n |-> 0]
JsSymbol == [tag |-> "symbol", n |-> 0]
JsException == [tag |-> "exception", n |-> 0]
JsNumbers == {JsNum(n) : n \in {k \in -MaxNumber .. MaxNumber : IsDouble(k)}}
JsInput == JsNumbers \cup {JsNull, JsSymbol}

\* Outcomes of a conversion.  A native result is [has, x]: has is FALSE for
\* an empty optional.
NoNative == [has |-> FALSE, x |-> 0]
Native(x) == [has |-> TRUE, x |-> x]
Returned(js, nat) == [ok |-> TRUE, err |-> "none", js |-> js, nat |-> nat]
\* throw exception(ctx) with err pending in the context
Thrown(err) == [ok |-> FALSE, err |-> err, js |-> JsException, nat |-> NoNative]
\* an exception leaving a noexcept function: std::terminate
Terminated == [ok |-> FALSE, err |-> "terminate", js |-> JsException, nat |-> NoNative]

\* ToNumber as JS_ToInt32 / JS_ToUint32 / JS_ToInt64 apply it: null is 0, a
\* Symbol is a TypeError (the functions return -1).
ToNumberFails(val) == val.tag = "symbol"
ToNumber(val) == IF val.tag = "num" THEN val.n ELSE 0

\* JS_ToInt32, JS_ToUint32, JS_ToInt64: the number modulo 2^32 or 2^64.
JS_ToInt32(val) == WrapSigned(ToNumber(val), ScaledBits(4))
JS_ToUint32(val) == WrapUnsigned(ToNumber(val), ScaledBits(4))
JS_ToInt64(val) == WrapSigned(ToNumber(val), ScaledBits(8))

\* JS_NewInt32, JS_NewUint32: exact.  JS_NewInt64: an int32 when the value
\* fits, else the nearest double.
JS_NewInt32(x) == JsNum(x)
JS_NewUint32(x) == JsNum(x)
JS_NewInt64(x) ==
    IF InRange(Int32Min, Int32Max, x) THEN JsNum(x) ELSE JsNum(ToDouble(x))

\* js_traits<Integer>::unwrap_integer<F, R> after F wrote `result`.
UnwrapChecked(T, result) ==
    IF ~InRange(MinOf(T), MaxOf(T), result)
    THEN Thrown("RangeError")
    ELSE Returned(JsNull, Native(result))

\* js_traits<Integer>::unwrap
UnwrapInteger(T, val) ==
    IF ToNumberFails(val) THEN Thrown("TypeError")
    ELSE IF SizeOf(T) > 4 THEN UnwrapChecked(T, JS_ToInt64(val))
    ELSE IF IsUnsigned(T) THEN UnwrapChecked(T, JS_ToUint32(val))
    ELSE UnwrapChecked(T, JS_ToInt32(val))

\* js_traits<Integer>::wrap, through wrap_integer<F, R>
WrapInteger(T, x) ==
    IF SizeOf(T) > 4
    THEN IF ~InRange(Int64Min, Int64Max, x) THEN Thrown("RangeError")
         ELSE Returned(JS_NewInt64(x), NoNative)
    ELSE IF IsUnsigned(T)
    THEN IF ~InRange(0, Uint32Max, x) THEN Thrown("RangeError")
         ELSE Returned(JS_NewUint32(x), NoNative)
    ELSE IF ~InRange(Int32Min, Int32Max, x) THEN Thrown("RangeError")
         ELSE Returned(JS_NewInt32(x), NoNative)

\* js_traits<std::optional<T>>::unwrap (noexcept): null is empty; a
\* qjs::exception from the inner unwrap is caught, the pending exception
\* fetched and freed, and empty returned.
UnwrapOptional(T, val) ==
    IF val.tag = "null" THEN Returned(JsNull, NoNative)
    ELSE LET inner == UnwrapInteger(T, val)
         IN IF inner.ok THEN inner ELSE Returned(JsNull, NoNative)

\* js_traits<std::optional<T>>::wrap (noexcept): JS_NULL when empty, else
\* js_traits<T>::wrap; an exception that wrap throws cannot leave.
WrapOptional(T, opt) ==
    IF opt.has
    THEN LET inner == WrapInteger(T, opt.x)
         IN IF inner.ok THEN inner ELSE Terminated
    ELSE Returned(JsNull, NoNative)

\* The context's pending exception after a conversion with the given outcome.
PendingAfter(out) == IF out.ok \/ out.err = "terminate" THEN pending ELSE out.err

InitConv ==
    /\ pending = "none"
    /\ conv = [op |-> "none", T |-> "int8", js |-> JsNull, nat |-> NoNative,
               out |-> Returned(JsNull, NoNative)]

\* value.as<T>() for an integral T
DoUnwrapInteger ==
    /\ conv.op = "none"
    /\ \E T \in IntType, val \in JsInput :
          /\ conv' = [op |-> "unwrap", T |-> T, js |-> val, nat |-> NoNative,
                      out |-> UnwrapInteger(T, val)]
          /\ pending' = PendingAfter(UnwrapInteger(T, val))
    /\ UNCHANGED varsNotConv

\* context.new_value(x) for an integral x, up to the js_traits call
DoWrapInteger ==
    /\ conv.op = "none"
    /\ \E T \in IntType : \E x \in ValuesOf(T) :
          /\ conv' = [op |-> "wrap", T |-> T, js |-> JsNull, nat |-> Native(x),
                      out |-> WrapInteger(T, x)]
          /\ pending' = PendingAfter(WrapInteger(T, x))
    /\ UNCHANGED varsNotConv

\* unwrap<T>(wrap<T>(x)): the second conversion runs when the first returned.
DoRoundTrip ==
    /\ conv.op = "none"
    /\ \E T \in IntType : \E x \in ValuesOf(T) :
          LET w == WrapInteger(T, x)
              u == IF w.ok THEN UnwrapInteger(T, w.js) ELSE w
          IN /\ conv' = [op |-> "roundtrip", T |-> T, js |-> w.js, nat |-> Native(x),
                         out |-> u]
             /\ pending' = PendingAfter(u)
    /\ UNCHANGED varsNotConv

\* value.as<std::optional<T>>()
DoUnwrapOptional ==
    /\ conv.op = "none"
    /\ \E T \in IntType, val \in JsInput :
          /\ conv' = [op |-> "unwrapopt", T |-> T, js |-> val, nat |-> NoNative,
                      out |-> UnwrapOptional(T, val)]
          \* the handler's JS_FreeValue(ctx, JS_GetException(ctx))
          /\ pending' = IF val.tag = "null" \/ UnwrapInteger(T, val).ok
                        THEN pending ELSE "none"
    /\ UNCHANGED varsNotConv

\* js_traits<std::optional<T>>::wrap
DoWrapOptional ==
    /\ conv.op = "none"
    /\ \E T \in IntType : \E opt \in {NoNative} \cup {Native(x) : x \in ValuesOf(T)} :
          /\ conv' = [op |-> "wrapopt", T |-> T, js |-> JsNull, nat |-> opt,
                      out |-> WrapOptional(T, opt)]
          /\ pending' = IF opt.has THEN PendingAfter(WrapInteger(T, opt.x)) ELSE pending
    /\ UNCHANGED varsNotConv

\* context::get_exception: returns the pending exception and clears it.
GetException ==
    /\ pending # "none"
    /\ pending' = "none"
    /\ UNCHANGED conv
    /\ UNCHANGED varsNotConv

\* The caller is done with the result of the conversion.
IdleConv == [op |-> "none", T |-> "int8", js |-> JsNull, nat |-> NoNative,
             out |-> Returned(JsNull, NoNative)]

ConvDone ==
    /\ conv.op # "none"
    /\ conv' = IdleConv
    /\ UNCHANGED pending
    /\ UNCHANGED varsNotConv

NextConv ==
    \/ DoUnwrapInteger
    \/ DoWrapInteger
    \/ DoRoundTrip
    \/ DoUnwrapOptional
    \/ DoWrapOptional
    \/ GetException
    \/ ConvDone

\* ---- C2 ------------------------------------------------------------------

\* C2: unwrap<T> of a runtime number outside T's range fails with RangeError
\* (never a wrapped-around or truncated value), and of a runtime integer
\* inside T's range returns exactly that integer.
C2_UnwrapRangeChecked ==
    (conv.op = "unwrap" /\ conv.js.tag = "num")
        => IF conv.js.n \in ValuesOf(conv.T)
           THEN conv.out.ok /\ conv.out.nat = Native(conv.js.n)
           ELSE ~conv.out.ok /\ conv.out.err = "RangeError"

\* ---- C3 ------------------------------------------------------------------

\* C3: for every integral type T and every value x of T, the minimum and the
\* maximum included, wrap<T>(x) succeeds and unwrap<T>(wrap<T>(x)) = x.
C3_RoundTrip ==
    conv.op = "roundtrip" => (conv.out.ok /\ conv.out.nat = conv.nat)

\* ---- C4 ------------------------------------------------------------------

\* C4: unwrap<optional<T>> never throws: it is empty for null, the converted
\* T when the inner conversion succeeds, and empty with no exception pending
\* when the inner conversion fails; wrap<optional<T>> is null for empty and
\* wrap<T>(x) for a present x.
C4_Optional ==
    /\ conv.op = "unwrapopt" =>
          /\ conv.out.ok
          /\ conv.js.tag = "null" => conv.out.nat = NoNative
          /\ (conv.js.tag # "null" /\ UnwrapInteger(conv.T, conv.js).ok)
                => conv.out.nat = UnwrapInteger(conv.T, conv.js).nat
          /\ (conv.js.tag # "null" /\ ~UnwrapInteger(conv.T, conv.js).ok)
                => (conv.out.nat = NoNative /\ pending = "none")
    /\ conv.op = "wrapopt" =>
          IF conv.nat.has
          THEN conv.out = WrapInteger(conv.T, conv.nat.x)
          ELSE conv.out = Returned(JsNull, NoNative)

---------------------------------------------------------------------------
(***************************************************************************)
(* detail::wrap_call: calling a wrapped function                           *)
(*                                                                         *)
(* A wrapped callable is [mode, nArgs, rest, R]: how it is bound, the      *)
(* number of its declared parameters (function_traits::args, the owner of  *)
(* a member function not counted), whether the last of them is rest<T>,    *)
(* and its result type.  Fixed parameters and rest elements are int32_t,   *)
(* the owner of a member function is a registered class.  With PassThis a  *)
(* free callable has a first parameter, and that parameter is a fixed one. *)
(***************************************************************************)

\* Largest number of declared parameters and of runtime arguments.
MaxParams == 2
MaxArgc == 3

\* The type of the fixed parameters and of the rest elements.
ArgType == "int32"

CallMode == {"free", "freeThis", "memberThis", "memberArg"}
ResultType == {"void", "uint64", "optuint64"}

Callable ==
    {f \in [mode : CallMode, nArgs : 0 .. MaxParams, rest : BOOLEAN, R : ResultType] :
        /\ f.rest => f.nArgs >= 1
        /\ f.mode = "freeThis" => (f.nArgs >= 1 /\ (f.rest => f.nArgs >= 2))}

\* function_traits<Function>::arity, the length the closure is created with
Arity(f) == f.nArgs

JsUndefined == [tag |-> "undefined", n |-> 0]
JsObject == [tag |-> "object", n |-> 0]
\* What a read outside the argument array can give: any value, or a fault.
JsFault == [tag |-> "fault", n |-> 0]

\* Runtime values passed as arguments and as the receiver.
ArgValue == {JsNum(1), JsSymbol, JsObject}
ThisValue == {JsObject, JsSymbol}
OutOfBounds == ArgValue \cup {JsFault}

\* All sequences over S of length at most n.
SeqUpTo(S, n) == UNION {[1 .. k -> S] : k \in 0 .. n}

\* An int converted to std::size_t, and std::vector<T>::max_size().
SizeBits == ScaledBits(8)
ToSizeT(n) == WrapUnsigned(n, SizeBits)
VectorMaxSize == Pow2(SizeBits - 1) - 1

\* argv[i] as the closure sees it: the engine passes the caller's arguments
\* and fills the slots up to the closure's length with undefined; further
\* slots are not part of the array.
ReadSlot(c, i) ==
    IF i < c.argc THEN c.argv[i + 1]
    ELSE IF i < Arity(c.f) THEN JsUndefined
    ELSE c.oob

\* js_traits<Owner*>::unwrap of a value that is not null: an instance of the
\* class, or TypeError.
UnwrapOwner(val) ==
    IF val.tag = "object" THEN Returned(JsNull, Native(0)) ELSE Thrown("TypeError")

\* The unwrapping of one parameter: [kind, I, NArgs, argc, base], where I
\* and NArgs are the template arguments of unwrap_arg_impl, argc the count it
\* is given and base the offset of the array it is given in argv.
Step(kind, I, NArgs, argc, base) ==
    [kind |-> kind, I |-> I, NArgs |-> NArgs, argc |-> argc, base |-> base]

\* unwrap_args<Args, TupleOffset>(ctx, argc, argv + base): parameter Is is
\* unwrapped by unwrap_arg_impl<_, Is - TupleOffset, sizeof...(Is)>.
UnwrapArgsSteps(f, TupleOffset, argc, base) ==
    [n \in 1 .. (f.nArgs - TupleOffset) |->
        LET Is == TupleOffset + n - 1
        IN Step(IF f.rest /\ Is = f.nArgs - 1 THEN "rest" ELSE "arg",
                Is - TupleOffset, f.nArgs - TupleOffset, argc, base)]

\* apply_unwrapped<PassThis>: the unwrappings in the order of the parameters.
ApplySteps(f, argc) ==
    CASE f.mode = "free" -> UnwrapArgsSteps(f, 0, argc, 0)
      [] f.mode = "freeThis" ->
            <<Step("thisArg", 0, 1, 1, 0)>> \o UnwrapArgsSteps(f, 1, argc, 0)
      [] f.mode = "memberThis" ->
            <<Step("thisOwner", 0, 1, 1, 0)>> \o UnwrapArgsSteps(f, 0, argc, 0)
      [] f.mode = "memberArg" ->
            <<Step("slotOwner", 0, 1, 1, 0)>> \o UnwrapArgsSteps(f, 0, argc - 1, 1)

Reverse(seq) == [i \in 1 .. Len(seq) |-> seq[Len(seq) + 1 - i]]

\* The operands of std::make_tuple and std::tuple_cat are evaluated in an
\* order the compiler chooses: left to right or right to left.
EvalOrder == {"ltr", "rtl"}
Ordered(steps, order) == IF order = "ltr" THEN steps ELSE Reverse(steps)

\* Progress of the unwrapping: how it stands, the error raised, the counts
\* an arity error reported, the slots of argv read, the rest sequence built.
NoCount == -1
AccInit ==
    [status |-> "ok", err |-> "none", expected |-> NoCount, received |-> NoCount,
     reads |-> {}, rest |-> <<>>]

\* js_traits<T>::unwrap(ctx, argv[slot]) for an integral T
UnwrapSlot(c, acc, slot) ==
    LET val == ReadSlot(c, slot)
        a   == [acc EXCEPT !.reads = @ \cup {slot}]
    IN IF val = JsFault THEN [a EXCEPT !.status = "fault"]
       ELSE IF UnwrapInteger(ArgType, val).ok THEN a
       ELSE [a EXCEPT !.status = "bridge", !.err = UnwrapInteger(ArgType, val).err]

\* The first index the rest parameter takes.
RestFirstSkipsOne(I) == I + 1

RestFirst(I) == I

\* unwrap_arg_impl<rest<T>, I, NArgs>::unwrap: the loop from index i
RECURSIVE RestLoop(_, _, _, _)
RestLoop(c, acc, st, i) ==
    IF acc.status # "ok" \/ ~(i < ToSizeT(st.argc)) THEN acc
    ELSE LET a == UnwrapSlot(c, acc, st.base + i)
         IN IF a.status # "ok" THEN a
            ELSE RestLoop(c,
                    [a EXCEPT !.rest = Append(@,
                        UnwrapInteger(ArgType, ReadSlot(c, st.base + i)).nat.x)],
                    st, i + 1)

\* unwrap_arg_impl<T, I, NArgs>::unwrap and its rest<T> specialisation
RunStep(c, acc, st) ==
    CASE st.kind = "arg" ->
            IF ToSizeT(st.argc) <= st.I
            THEN [acc EXCEPT !.status = "bridge", !.err = "TypeError",
                             !.expected = st.NArgs, !.received = st.argc]
            ELSE UnwrapSlot(c, acc, st.base + st.I)
      [] st.kind = "rest" ->
            IF ToSizeT(st.argc - st.I) > VectorMaxSize
            THEN [acc EXCEPT !.status = "std"]
            ELSE RestLoop(c, acc, st, RestFirst(st.I))
      [] st.kind = "thisArg" ->
            IF UnwrapInteger(ArgType, c.this).ok THEN acc
            ELSE [acc EXCEPT !.status = "bridge",
                             !.err = UnwrapInteger(ArgType, c.this).err]
      [] st.kind = "thisOwner" ->
            IF UnwrapOwner(c.this).ok THEN acc
            ELSE [acc EXCEPT !.status = "bridge", !.err = UnwrapOwner(c.this).err]
      [] st.kind = "slotOwner" ->
            LET val == ReadSlot(c, 0)
                a   == [acc EXCEPT !.reads = @ \cup {0}]
            IN IF val = JsFault THEN [a EXCEPT !.status = "fault"]
               ELSE IF UnwrapOwner(val).ok THEN a
               ELSE [a EXCEPT !.status = "bridge", !.err = UnwrapOwner(val).err]

\* The unwrappings one after the other, up to the first that throws.
RECURSIVE RunSteps(_, _, _)
RunSteps(c, acc, steps) ==
    IF steps = <<>> \/ acc.status # "ok" THEN acc
    ELSE RunSteps(c, RunStep(c, acc, Head(steps)), Tail(steps))

\* What the native callable does when it is invoked: it returns val, or it
\* throws qjs::exception after an error was raised in the context, or a
\* std::exception, or something else (the handlers of wrap_call do not
\* depend on R: the throwing callables are the void ones).
Behaviour(R) ==
    (IF R = "void"
     THEN {[beh |-> b, val |-> NoNative] : b \in {"throwBridge", "throwStd", "throwOther"}}
     ELSE {})
    \cup
    {[beh |-> "return", val |-> v] :
        v \in CASE R = "void" -> {NoNative}
                [] R = "uint64" -> {Native(1), Native(Int64Max + 1)}
                [] R = "optuint64" -> {NoNative, Native(1), Native(Int64Max + 1)}}

\* js_traits<std::decay_t<R>>::wrap of the callable's result
WrapResult(R, val) ==
    CASE R = "uint64" -> WrapInteger("uint64", val.x)
      [] R = "optuint64" -> WrapOptional("uint64", val)

\* The outcome of wrap_call: the JSValue returned (or crashed: the process
\* ended and nothing was returned), the exception left pending, whether the
\* callable was invoked, and the step that failed.
Outcome(ret, pend, crashed, invoked, failed) ==
    [ret |-> ret, pend |-> pend, crashed |-> crashed, invoked |-> invoked,
     failed |-> failed]

\* wrap_call, after the arguments were unwrapped
CallAndWrap(f, b) ==
    CASE b.beh = "throwBridge" -> Outcome(JsException, "Error", FALSE, TRUE, "callable")
      [] b.beh = "throwStd" -> Outcome(JsException, "InternalError", FALSE, TRUE, "callable")
      [] b.beh = "throwOther" -> Outcome(JsException, "InternalError", FALSE, TRUE, "callable")
      [] b.beh = "return" ->
            IF f.R = "void" THEN Outcome(JsNull, "none", FALSE, TRUE, "none")
            ELSE LET w == WrapResult(f.R, b.val)
                 IN IF w.ok THEN Outcome(w.js, "none", FALSE, TRUE, "none")
                    ELSE IF w = Terminated
                    THEN Outcome(JsException, "RangeError", TRUE, TRUE, "wrap")
                    ELSE Outcome(JsException, w.err, FALSE, TRUE, "wrap")

\* detail::wrap_call<PassThis>(ctx, f, this_val, argc, argv)
WrapCallOutcome(c, acc, b) ==
    CASE acc.status = "fault" -> Outcome(JsException, "none", TRUE, FALSE, "unwrap")
      [] acc.status = "bridge" -> Outcome(JsException, acc.err, FALSE, FALSE, "unwrap")
      [] acc.status = "std" -> Outcome(JsException, "InternalError", FALSE, FALSE, "unwrap")
      [] acc.status = "ok" -> CallAndWrap(c.f, b)

NoCall ==
    [op |-> "none", f |-> [mode |-> "free", nArgs |-> 0, rest |-> FALSE, R |-> "void"],
     argc |-> 0, argv |-> <<>>, this |-> JsUndefined,
     acc |-> AccInit, out |-> Outcome(JsNull, "none", FALSE, FALSE, "none")]

InitCall == call = NoCall

\* The receiver matters to the PassThis instantiations only.
PassThis(f) == f.mode \in {"freeThis", "memberThis"}

\* The engine calls the closure of a wrapped function: no exception is
\* pending, argc arguments are in argv.
WrapCall ==
    /\ call.op = "none"
    /\ pending = "none"
    /\ \E f \in Callable, argv \in SeqUpTo(ArgValue, MaxArgc) :
       \E this \in (IF PassThis(f) THEN ThisValue ELSE {JsUndefined}) :
       \E order \in EvalOrder, oob \in OutOfBounds, b \in Behaviour(f.R) :
          LET c   == [f |-> f, argc |-> Len(argv), argv |-> argv, this |-> this,
                      oob |-> oob]
              acc == RunSteps(c, AccInit, Ordered(ApplySteps(f, Len(argv)), order))
              out == WrapCallOutcome(c, acc, b)
          IN /\ call' = [op |-> "call", f |-> f, argc |-> Len(argv), argv |-> argv,
                         this |-> this, acc |-> acc, out |-> out]
             /\ pending' = out.pend
    /\ UNCHANGED varsNotCall

\* The engine has taken the closure's return value.
CallReturned ==
    /\ call.op = "call"
    /\ call' = NoCall
    /\ UNCHANGED pending
    /\ UNCHANGED varsNotCall

NextCall ==
    \/ WrapCall
    \/ CallReturned
    \/ GetException

\* ---- C5 ------------------------------------------------------------------

\* Parameters that are bound one to one: all but a trailing rest<T>.
FixedParams(f) == f.nArgs - (IF f.rest THEN 1 ELSE 0)

\* Runtime arguments a call has to supply: one per fixed parameter, less the
\* parameter the receiver is bound to, plus the owner when the owner is the
\* first runtime argument.
Required(f) ==
    CASE f.mode = "free" -> FixedParams(f)
      [] f.mode = "freeThis" -> FixedParams(f) - 1
      [] f.mode = "memberThis" -> FixedParams(f)
      [] f.mode = "memberArg" -> FixedParams(f) + 1

\* C5: in every binding mode, a call that supplies M < N arguments to a
\* callable that requires N fails with a TypeError reporting N expected and M
\* received, the callable is not invoked, and no slot of argv at index M or
\* above is read.
C5_ArityFailure ==
    (call.op = "call" /\ call.argc < Required(call.f)) =>
        /\ ~call.out.crashed
        /\ call.out.ret = JsException
        /\ call.out.pend = "TypeError"
        /\ call.acc.expected = Required(call.f)
        /\ call.acc.received = call.argc
        /\ ~call.out.invoked
        /\ \A i \in call.acc.reads : i < call.argc

\* ---- C6 ------------------------------------------------------------------

\* Whether every value a call binds converts: the receiver or the owner, the
\* arguments of the fixed parameters and those the rest parameter takes.
Convertible(c) ==
    /\ c.f.mode = "freeThis" => UnwrapInteger(ArgType, c.this).ok
    /\ c.f.mode = "memberThis" => UnwrapOwner(c.this).ok
    /\ c.f.mode = "memberArg" => UnwrapOwner(c.argv[1]).ok
    /\ \A i \in (IF c.f.mode = "memberArg" THEN 2 ELSE 1) .. c.argc :
          UnwrapInteger(ArgType, c.argv[i]).ok

\* The conversions of the runtime arguments k .. k+m-1, in call order.
ExpectedRest(c) ==
    LET k == Required(c.f)
    IN [j \in 1 .. (c.argc - k) |-> UnwrapInteger(ArgType, c.argv[k + j]).nat.x]

C7_CatchAll ==
    call.op = "call" =>
        /\ ~call.out.crashed
        /\ call.out.failed # "none" =>
              (call.out.ret = JsException /\ call.out.pend # "none")
        /\ call.out.ret # JsException => call.out.failed = "none"

---------------------------------------------------------------------------
(***************************************************************************)
(* js_traits<std::shared_ptr<T>>: class identities, derived-cast tables    *)
(* and the unwrapping of shared pointers                                   *)
(*                                                                         *)
(* The native classes form a chain: class 1 is the root, class c derives   *)
(* from class c - 1, so the ancestors of c are 1 .. c - 1.                 *)
(***************************************************************************)

NumClasses == 3

Class == 1 .. NumClasses
Ancestors(T) == 1 .. (T - 1)

\* JS_INVALID_CLASS_ID, the class id JS_GetClassID gives for a non-object
\* and the initial value of qjs_class_id.
InvalidClassId == 0

\* The statics of js_traits<std::shared_ptr<T>> for all T, and the runtime's
\* class id counter.
Statics(id, count, map, hook) == [id |-> id, count |-> count, map |-> map, hook |-> hook]

\* is_registered()
IsRegistered(st, T) == st.id[T] # InvalidClassId

\* JS_NewClassID(rt, &qjs_class_id): allocates when the id is still 0.
NewClassID(st, T) ==
    IF st.id[T] = InvalidClassId
    THEN [st EXCEPT !.count = @ + 1, !.id[T] = st.count + 1]
    ELSE st

\* The assignment to register_with_base of D at the end of
\* register_derived_class: the new hook first calls the old one, then
\* registers with T.
InstallHook(st, D, T) == [st EXCEPT !.hook[D] = @ \cup {T}]

RECURSIVE RegisterDerivedClass(_, _, _, _)
RECURSIVE CallHook(_, _, _, _)

\* A registration that stays in the table of the direct base.
NoPropagation(st, T, id) == st

\* if (register_with_base) register_with_base(derived_class_id, ptr_cast_fcn)
PropagateToBase(st, T, id) ==
    IF st.hook[T] # {} THEN CallHook(st, T, st.hook[T], id) ELSE st

\* js_traits<std::shared_ptr<T>>::register_derived_class<D>(id, fcn), and a
\* call of D's hook: register_derived_class<D> at each class the hook was
\* installed by (the calls only add to tables and hooks, so they commute).
RegisterDerivedClass(st, T, D, id) ==
    LET st1 == [st EXCEPT !.map[T] = @ \cup {id}]
        st2 == PropagateToBase(st1, T, id)
    IN InstallHook(st2, D, T)
CallHook(st, D, targets, id) ==
    IF targets = {} THEN st
    ELSE LET T == CHOOSE t \in targets : \A u \in targets : t >= u
         IN CallHook(RegisterDerivedClass(st, T, D, id), D, targets \ {T}, id)

\* js_traits<std::shared_ptr<T>>::ensure_can_cast_to_base<B>(ctx)
EnsureCanCastToBase(st, T, B) ==
    LET st1 == IF ~IsRegistered(st, T) THEN NewClassID(st, T) ELSE st
    IN RegisterDerivedClass(st1, B, T, st1.id[T])

\* Runtime values given to unwrap: null, a number, a string, undefined, a
\* plain object, or an object of a class with its opaque slot: a
\* std::shared_ptr to an instance ("inst"), an empty std::shared_ptr
\* ("empty"), or no opaque at all ("null").
NumInstances == 2
Instance == 1 .. NumInstances
NoInstance == 0
ShNull == [tag |-> "null", cls |-> 0, slot |-> "null", inst |-> NoInstance]
ShNumber == [tag |-> "num", cls |-> 0, slot |-> "null", inst |-> NoInstance]
ShString == [tag |-> "str", cls |-> 0, slot |-> "null", inst |-> NoInstance]
ShUndefined == [tag |-> "undefined", cls |-> 0, slot |-> "null", inst |-> NoInstance]
ShPlain == [tag |-> "plain", cls |-> 0, slot |-> "null", inst |-> NoInstance]
\* The values that are not null and not bound objects.
UnboundValues == {ShNumber, ShString, ShUndefined, ShPlain}
ShObject(T, slot, inst) == [tag |-> "object", cls |-> T, slot |-> slot, inst |-> inst]

\* Objects exist of the classes that have an id and are defined in the
\* runtime.
ShValues(st, defined) ==
    {ShNull} \cup UnboundValues
    \cup {ShObject(T, "inst", i) : T \in {c \in defined : IsRegistered(st, c)}, i \in Instance}
    \cup {ShObject(T, slot, NoInstance) :
            T \in {c \in defined : IsRegistered(st, c)}, slot \in {"empty", "null"}}

\* JS_GetClassID(val): the id of the object's class, the engine's class of
\* plain objects for a plain object, 0 for a value that is no object.
ObjectClassId == -1
GetClassID(st, val) ==
    CASE val.tag = "object" -> st.id[val.cls]
      [] val.tag = "plain" -> ObjectClassId
      [] OTHER -> InvalidClassId

\* Outcomes of unwrap: a pointer (NoInstance when empty), an error thrown,
\* or a null pointer dereferenced.
ShReturned(inst) == [ok |-> TRUE, err |-> "none", inst |-> inst, fault |-> FALSE]
ShThrown(err) == [ok |-> FALSE, err |-> err, inst |-> NoInstance, fault |-> FALSE]
ShFault == [ok |-> FALSE, err |-> "none", inst |-> NoInstance, fault |-> TRUE]

\* if (!ptr) { JS_ThrowInternalError(...); throw exception(ctx); } return ptr;
CheckedPtr(inst) ==
    IF inst = NoInstance THEN ShThrown("InternalError") ELSE ShReturned(inst)

\* *static_cast<std::shared_ptr<T>*>(JS_GetOpaque2(ctx, val, class_id)):
\* JS_GetOpaque2 is NULL for a non-object and for an object without opaque.
\* Dereferencing NULL is undefined: the outcome is `ub`.
DerefOpaque(val, ub) ==
    IF val.tag # "object" \/ val.slot = "null" THEN ub
    ELSE CheckedPtr(val.inst)

\* What the dereference of a null pointer can end in: a fault, or a read of
\* whatever is there, as an empty or a non-empty pointer.
UbOutcome == {ShFault, ShThrown("InternalError")} \cup {ShReturned(i) : i \in Instance}

\* The class whose id is class_id.
ClassOfId(st, class_id) == CHOOSE T \in Class : st.id[T] = class_id

\* js_traits<std::shared_ptr<T>>::unwrap(ctx, val).  The cast function of a
\* table entry is the unwrap of the class that registered the id, its result
\* converted to std::shared_ptr<T>.
RECURSIVE UnwrapShared(_, _, _, _)
UnwrapShared(st, T, val, ub) ==
    IF val.tag = "null" THEN ShReturned(NoInstance)
    ELSE LET class_id == GetClassID(st, val)
         IN IF class_id = st.id[T] THEN DerefOpaque(val, ub)
            ELSE IF class_id \in st.map[T]
            THEN LET r == UnwrapShared(st, ClassOfId(st, class_id), val, ub)
                 IN IF r.ok THEN CheckedPtr(r.inst) ELSE r
            ELSE ShThrown("TypeError")

\* The statics as they are now, and the assignment of new ones.
CurStatics == Statics(qjs_class_id, class_count, ptr_cast_fcn_map, register_with_base)
SetStatics(st) ==
    /\ qjs_class_id' = st.id
    /\ class_count' = st.count
    /\ ptr_cast_fcn_map' = st.map
    /\ register_with_base' = st.hook

NoUnwrap == [op |-> "none", T |-> 1, val |-> ShNull, out |-> ShReturned(NoInstance)]

InitReg ==
    /\ qjs_class_id = [T \in Class |-> InvalidClassId]
    /\ class_count = 0
    /\ js_classes = {}
    /\ ptr_cast_fcn_map = [T \in Class |-> {}]
    /\ register_with_base = [T \in Class |-> {}]
    /\ edges = {}
    /\ top_down = TRUE
    /\ uw = NoUnwrap

\* Whether registering T as derived from B now keeps the registration base
\* first: B is the direct base of T and is itself already registered with
\* its own base.
KeepsTopDown(T, B) ==
    /\ B = T - 1
    /\ B = 1 \/ <<B, B - 1>> \in edges

\* context::register_class<T>(name, proto), as ~class_registrar calls it
RegisterClass ==
    /\ uw.op = "none"
    /\ \E T \in Class :
          /\ SetStatics(NewClassID(CurStatics, T))
          /\ js_classes' = js_classes \cup {T}
    /\ UNCHANGED <<edges, top_down, uw>>
    /\ UNCHANGED varsNotReg

\* class_registrar<T>::base<B>(): B has to be registered (the assert).
RegistrarBase ==
    /\ uw.op = "none"
    /\ \E T \in Class : \E B \in Ancestors(T) :
          /\ IsRegistered(CurStatics, B)
          /\ SetStatics(EnsureCanCastToBase(CurStatics, T, B))
          /\ edges' = edges \cup {<<T, B>>}
          /\ top_down' = (top_down /\ KeepsTopDown(T, B))
    /\ UNCHANGED <<js_classes, uw>>
    /\ UNCHANGED varsNotReg

\* class_registrar<T>::member<M>(name) for a member M of the base class B
RegistrarMember ==
    /\ uw.op = "none"
    /\ \E T \in Class : \E B \in Ancestors(T) :
          /\ SetStatics(EnsureCanCastToBase(CurStatics, T, B))
          /\ edges' = edges \cup {<<T, B>>}
          /\ top_down' = (top_down /\ KeepsTopDown(T, B))
    /\ UNCHANGED <<js_classes, uw>>
    /\ UNCHANGED varsNotReg

\* value.as<std::shared_ptr<T>>()
DoUnwrapShared ==
    /\ uw.op = "none"
    /\ \E T \in Class, val \in ShValues(CurStatics, js_classes), ub \in UbOutcome :
          uw' = [op |-> "unwrap", T |-> T, val |-> val,
                 out |-> UnwrapShared(CurStatics, T, val, ub)]
    /\ UNCHANGED <<qjs_class_id, class_count, js_classes, ptr_cast_fcn_map,
                   register_with_base, edges, top_down>>
    /\ UNCHANGED varsNotReg

\* The caller is done with the result.
UnwrapReturned ==
    /\ uw.op = "unwrap"
    /\ uw' = NoUnwrap
    /\ UNCHANGED <<qjs_class_id, class_count, js_classes, ptr_cast_fcn_map,
                   register_with_base, edges, top_down>>
    /\ UNCHANGED varsNotReg

NextReg ==
    \/ RegisterClass
    \/ RegistrarBase
    \/ RegistrarMember
    \/ DoUnwrapShared
    \/ UnwrapReturned

\* ---- C8 ------------------------------------------------------------------

\* T derives from A through registered derivations.
RECURSIVE Derives(_, _)
Derives(T, A) ==
    \/ <<T, A>> \in edges
    \/ \E M \in (A + 1) .. (T - 1) : <<T, M>> \in edges /\ Derives(M, A)

\* An unwrap of an object of class D holding an instance, as shared<A>.
UnwrapsObjectAs(D, A) ==
    /\ uw.op = "unwrap"
    /\ uw.T = A
    /\ uw.val.tag = "object"
    /\ uw.val.cls = D
    /\ uw.val.slot = "inst"

\* C8: in whatever order the derivations were registered, the cast table of
\* every class has an entry for every class that derives from it through
\* them, and unwrapping an object of such a class as shared<base> yields the
\* object's instance.
C8_OrderIndependent ==
    \A D \in Class : \A A \in Ancestors(D) :
        Derives(D, A) =>
            /\ qjs_class_id[D] \in ptr_cast_fcn_map[A]
            /\ UnwrapsObjectAs(D, A) => uw.out = ShReturned(uw.val.inst)

\* ---- C9 ------------------------------------------------------------------

\* Every class from D up to A is registered as derived from its direct base.
ChainRegistered(D, A) == \A c \in (A + 1) .. D : <<c, c - 1>> \in edges

C10_UnwrapShared ==
    uw.op = "unwrap" =>
        LET st       == CurStatics
            val      == uw.val
            class_id == GetClassID(st, val)
            own      == class_id = qjs_class_id[uw.T]
            derived  == class_id \in ptr_cast_fcn_map[uw.T]
        IN /\ ~uw.out.fault
           /\ uw.out.ok => (uw.out.inst = NoInstance <=> val.tag = "null")
           /\ val.tag = "null" => uw.out = ShReturned(NoInstance)
           /\ (val.tag # "null" /\ (own \/ derived)) =>
                 IF val.tag = "object" /\ val.slot = "inst"
                 THEN uw.out = ShReturned(val.inst)
                 ELSE uw.out = ShThrown("InternalError")
           /\ (val.tag # "null" /\ ~own /\ ~derived) => uw.out = ShThrown("TypeError")

\* ---- C29 -----------------------------------------------------------------

\* C29: unwrap<shared<T>>, and with it unwrap<T*>, of a number, a string,
\* undefined or a plain object fails with TypeError whether T has a class
\* id or not, and reads through no empty opaque slot.
C29_UnboundIsTypeError ==
    uw.op = "unwrap" /\ uw.val \in UnboundValues => uw.out = ShThrown("TypeError")

\* What holds instead: that is so for a plain object, and for the other
\* values once T has a class id.
C29_WithClassId ==
    (/\ uw.op = "unwrap"
     /\ uw.val \in UnboundValues
     /\ uw.val = ShPlain \/ qjs_class_id[uw.T] # InvalidClassId)
       => uw.out = ShThrown("TypeError")

---------------------------------------------------------------------------
(***************************************************************************)
(* js_traits<ctor_wrapper<T, Args...>>: the constructor of a bound class   *)
(*                                                                         *)
(* The constructor's parameters are those of a free callable: fixed        *)
(* int32_t parameters and possibly a trailing rest<int32_t>.               *)
(***************************************************************************)

\* The parameter lists Args... of the registered constructors.
CtorShape ==
    {f \in Callable : f.mode = "free" /\ f.R = "void"}

\* What happens around the construction: the lookup of new.target's
\* prototype or the allocation of the object fails in the engine, T's
\* constructor returns or throws, or the allocation of the slot's
\* std::shared_ptr fails.
CtorBehaviour ==
    {"ok", "protoFails", "objectFails", "throwBridge", "throwStd", "throwOther",
     "slotFails"}

\* What the handler did: the JSValue returned, the exception left pending,
\* the runtime object (allocated, times released, what its opaque holds),
\* the native instance (constructed, alive, std::shared_ptr objects owning
\* it) and the step that failed.
CtorOutcome(ret, pend, allocated, frees, opaque, constructed, alive, owners, failed) ==
    [ret |-> ret, pend |-> pend, allocated |-> allocated, frees |-> frees,
     opaque |-> opaque, constructed |-> constructed, alive |-> alive,
     owners |-> owners, failed |-> failed]

\* A handler that forgets the object on the error path.
KeepObject(frees) == frees

\* JS_FreeValue(ctx, jsobj) in a catch clause: the one reference is dropped
\* and the finalizer deletes the (null) opaque.
ReleaseObject(frees) == frees + 1

\* The three catch clauses: the object is released, JS_EXCEPTION returned.
CtorCaught(pend, constructed, failed) ==
    CtorOutcome("exception", pend, TRUE, ReleaseObject(0), "null", constructed, FALSE,
                0, failed)

\* The constructor's lambda, from the try block on.
CtorTry(acc, b) ==
    CASE acc.status = "bridge" -> CtorCaught(acc.err, FALSE, "unwrap")
      [] acc.status = "std" -> CtorCaught("InternalError", FALSE, "unwrap")
      [] acc.status = "fault" ->
            CtorOutcome("exception", "none", TRUE, 0, "null", FALSE, FALSE, 0, "fault")
      [] acc.status = "ok" ->
            CASE b = "throwBridge" -> CtorCaught("Error", FALSE, "construct")
              [] b = "throwStd" -> CtorCaught("InternalError", FALSE, "construct")
              [] b = "throwOther" -> CtorCaught("InternalError", FALSE, "construct")
              \* new std::shared_ptr<T> throws std::bad_alloc: ptr, the only
              \* owner, is destroyed when the try block is left
              [] b = "slotFails" -> CtorCaught("InternalError", TRUE, "construct")
              [] OTHER ->
                    CtorOutcome("object", "none", TRUE, 0, "ptr", TRUE, TRUE, 1, "none")

\* The whole lambda of js_traits<ctor_wrapper<T, Args...>>::wrap.
CtorCallOutcome(acc, b) ==
    CASE b = "protoFails" ->
            CtorOutcome("exception", "Error", FALSE, 0, "null", FALSE, FALSE, 0, "engine")
      [] b = "objectFails" ->
            CtorOutcome("exception", "InternalError", FALSE, 0, "null", FALSE, FALSE, 0,
                        "engine")
      [] OTHER -> CtorTry(acc, b)

NoCtor ==
    [op |-> "none", f |-> [mode |-> "free", nArgs |-> 0, rest |-> FALSE, R |-> "void"],
     argv |-> <<>>,
     out |-> CtorOutcome("exception", "none", FALSE, 0, "null", FALSE, FALSE, 0, "none")]

InitCtor == ctor = NoCtor

\* The engine calls the constructor function: new T(args).
CtorCall ==
    /\ ctor.op = "none"
    /\ pending = "none"
    /\ \E f \in CtorShape, argv \in SeqUpTo(ArgValue, MaxArgc) :
       \E order \in EvalOrder, b \in CtorBehaviour :
          LET c   == [f |-> f, argc |-> Len(argv), argv |-> argv, this |-> JsUndefined,
                      oob |-> JsFault]
              acc == RunSteps(c, AccInit, Ordered(ApplySteps(f, Len(argv)), order))
              out == CtorCallOutcome(acc, b)
          IN /\ ctor' = [op |-> "call", f |-> f, argv |-> argv, out |-> out]
             /\ pending' = out.pend
    /\ UNCHANGED varsNotCtor

\* The engine has taken the constructor's return value.
CtorReturned ==
    /\ ctor.op = "call"
    /\ ctor' = NoCtor
    /\ UNCHANGED pending
    /\ UNCHANGED varsNotCtor

NextCtor ==
    \/ CtorCall
    \/ CtorReturned
    \/ GetException

\* ---- C11 -----------------------------------------------------------------

\* C11: when unwrapping the arguments or constructing the native instance
\* fails, the object the constructor allocated is released exactly once, no
\* native instance stays alive, JS_EXCEPTION is returned and an exception is
\* pending; when the constructor succeeds, the returned object's opaque owns
\* exactly one shared reference to the new instance.
C11_CtorFailure ==
    ctor.op = "call" =>
        /\ ctor.out.failed \in {"unwrap", "construct"} =>
              /\ ctor.out.allocated
              /\ ctor.out.frees = 1
              /\ ~ctor.out.alive
              /\ ctor.out.owners = 0
              /\ ctor.out.ret = "exception"
              /\ ctor.out.pend # "none"
        /\ ctor.out.failed = "none" =>
              /\ ctor.out.ret = "object"
              /\ ctor.out.frees = 0
              /\ ctor.out.opaque = "ptr"
              /\ ctor.out.alive
              /\ ctor.out.owners = 1
        /\ ctor.out.ret = "object" => ctor.out.failed = "none"

C11_Witness ==
    /\ ctor.op = "call"
    /\ ctor.out.failed = "construct"
    /\ ctor.out.constructed
    /\ ctor.out.frees = 1
    /\ ctor.out.ret = "exception"

---------------------------------------------------------------------------
(***************************************************************************)
(* js_traits<T*> and js_traits<std::shared_ptr<T>>::wrap: bound objects    *)
(*                                                                         *)
(* A bound object's opaque slot holds a std::shared_ptr<T>.  The model     *)
(* keeps, per bound object, the control block of that pointer: its         *)
(* deleter, its use count and whether the deleter destroyed the pointee.   *)
(***************************************************************************)

NumPointees == 2
NumBound == 2
MaxHeld == 2
Pointee == 1 .. NumPointees
NullPtr == 0

\* The deleters of the control blocks: std::default_delete, and the
\* lambda [](T*) {} of js_traits<T*>::wrap.
DefaultDelete == "delete"
NoopDeleter == "noop"
PointerDeleter == NoopDeleter

\* new std::shared_ptr<T>(...): a control block with one owner, the slot.
NewSlot(kind, p, deleter) ==
    [kind |-> kind, pointee |-> p, deleter |-> deleter, count |-> 1,
     held |-> 0, finalized |-> FALSE, deleted |-> FALSE]

\* Copy and destruction of a std::shared_ptr<T> of the block: the last
\* owner runs the deleter.
CopyShared(o) == [o EXCEPT !.count = @ + 1]
DropShared(o) ==
    [o EXCEPT !.count = @ - 1,
              !.deleted = @ \/ (o.count = 1 /\ o.deleter = DefaultDelete)]

\* The class's finalizer: delete static_cast<std::shared_ptr<T>*>(opaque)
Finalizer(o) == [DropShared(o) EXCEPT !.finalized = TRUE]

\* What wrap can meet: register_class throws (JS_NewClass failed), or
\* JS_NewObjectClass fails.
WrapBehaviour == {"ok", "registerThrows", "objectFails"}

\* js_traits<T*>::wrap(ctx, val): the value returned ("null", "object",
\* "exception", or "thrown" for a qjs::exception), the pending exception
\* and the bound objects afterwards.
WrapPointer(objs, val, b) ==
    IF val = NullPtr THEN [ret |-> "null", pend |-> "none", objs |-> objs]
    ELSE IF b = "registerThrows"
    THEN [ret |-> "thrown", pend |-> "InternalError", objs |-> objs]
    ELSE IF b = "objectFails"
    THEN [ret |-> "exception", pend |-> "InternalError", objs |-> objs]
    ELSE [ret |-> "object", pend |-> "none",
          objs |-> Append(objs, NewSlot("raw", val, PointerDeleter))]

\* js_traits<std::shared_ptr<T>>::wrap(ctx, val) of an owning pointer made
\* by std::make_shared<T>, or of an empty pointer (val = NullPtr).
WrapShared(objs, val, b) ==
    IF val = NullPtr THEN [ret |-> "null", pend |-> "none", objs |-> objs]
    ELSE IF b = "registerThrows"
    THEN [ret |-> "thrown", pend |-> "InternalError", objs |-> objs]
    ELSE IF b = "objectFails"
    THEN [ret |-> "exception", pend |-> "InternalError", objs |-> objs]
    ELSE [ret |-> "object", pend |-> "none",
          objs |-> Append(objs, NewSlot("owned", val, DefaultDelete))]

\* The runtime values given to unwrap here: null (0) or a bound object that
\* is not finalized, by its index.
JsNullRef == 0
BoundValues(objs) == {JsNullRef} \cup {i \in 1 .. Len(objs) : ~objs[i].finalized}

\* js_traits<std::shared_ptr<T>>::unwrap(ctx, val) of null or of an object
\* of class T: a copy of the slot's pointer, which the caller holds.
UnwrapToShared(objs, val) ==
    IF val = JsNullRef THEN [ptr |-> NullPtr, objs |-> objs]
    ELSE [ptr |-> objs[val].pointee,
          objs |-> [objs EXCEPT ![val] = [CopyShared(@) EXCEPT !.held = @ + 1]]]

\* js_traits<T*>::unwrap(ctx, val): .get() of the temporary copy, which
\* is destroyed at the end of the expression.
UnwrapToPointer(objs, val) ==
    IF val = JsNullRef THEN [ptr |-> NullPtr, objs |-> objs]
    ELSE LET r == UnwrapToShared(objs, val)
         IN [ptr |-> r.ptr,
             objs |-> [r.objs EXCEPT ![val] = [DropShared(@) EXCEPT !.held = @ - 1]]]

NoBinding == [op |-> "none", arg |-> 0, ret |-> "none", ptr |-> NullPtr]

InitPtr == pb = [objs |-> <<>>, last |-> NoBinding]

\* wrap<T*>(ctx, val)
DoWrapPointer ==
    /\ pb.last.op = "none"
    /\ pending = "none"
    /\ Len(pb.objs) < NumBound
    /\ \E val \in {NullPtr} \cup Pointee, b \in WrapBehaviour :
          LET r == WrapPointer(pb.objs, val, b)
          IN /\ pb' = [objs |-> r.objs,
                       last |-> [op |-> "wrapPointer", arg |-> val,
                                 ret |-> r.ret, ptr |-> NullPtr]]
             /\ pending' = r.pend
    /\ UNCHANGED varsNotPtr

\* wrap<std::shared_ptr<T>>(ctx, val)
DoWrapShared ==
    /\ pb.last.op = "none"
    /\ pending = "none"
    /\ Len(pb.objs) < NumBound
    /\ \E val \in {NullPtr} \cup Pointee, b \in WrapBehaviour :
          LET r == WrapShared(pb.objs, val, b)
          IN /\ pb' = [objs |-> r.objs,
                       last |-> [op |-> "wrapShared", arg |-> val,
                                 ret |-> r.ret, ptr |-> NullPtr]]
             /\ pending' = r.pend
    /\ UNCHANGED varsNotPtr

\* unwrap<T*>(ctx, val)
DoUnwrapPointer ==
    /\ pb.last.op = "none"
    /\ pending = "none"
    /\ \E val \in BoundValues(pb.objs) :
          LET r == UnwrapToPointer(pb.objs, val)
          IN pb' = [objs |-> r.objs,
                    last |-> [op |-> "unwrapPointer", arg |-> val,
                              ret |-> "pointer", ptr |-> r.ptr]]
    /\ UNCHANGED pending
    /\ UNCHANGED varsNotPtr

\* unwrap<std::shared_ptr<T>>(ctx, val); the caller keeps the pointer.
DoUnwrapToShared ==
    /\ pb.last.op = "none"
    /\ pending = "none"
    /\ \E val \in BoundValues(pb.objs) :
          /\ val # JsNullRef => pb.objs[val].held < MaxHeld
          /\ LET r == UnwrapToShared(pb.objs, val)
             IN pb' = [objs |-> r.objs,
                       last |-> [op |-> "unwrapShared", arg |-> val,
                                 ret |-> "pointer", ptr |-> r.ptr]]
    /\ UNCHANGED pending
    /\ UNCHANGED varsNotPtr

\* Native code drops a shared pointer it got from unwrap.
DropHeld ==
    /\ pb.last.op = "none"
    /\ \E i \in 1 .. Len(pb.objs) :
          /\ pb.objs[i].held > 0
          /\ pb' = [pb EXCEPT !.objs[i] = [DropShared(@) EXCEPT !.held = @ - 1]]
    /\ UNCHANGED pending
    /\ UNCHANGED varsNotPtr

\* The engine frees the last reference to a bound object and runs the
\* class's finalizer.
FinalizeObject ==
    /\ pb.last.op = "none"
    /\ \E i \in 1 .. Len(pb.objs) :
          /\ ~pb.objs[i].finalized
          /\ pb' = [pb EXCEPT !.objs[i] = Finalizer(@)]
    /\ UNCHANGED pending
    /\ UNCHANGED varsNotPtr

\* The caller is done with the result.
PtrReturned ==
    /\ pb.last.op # "none"
    /\ pb' = [pb EXCEPT !.last = NoBinding]
    /\ UNCHANGED pending
    /\ UNCHANGED varsNotPtr

NextPtr ==
    \/ DoWrapPointer
    \/ DoWrapShared
    \/ DoUnwrapPointer
    \/ DoUnwrapToShared
    \/ DropHeld
    \/ FinalizeObject
    \/ PtrReturned
    \/ GetException

\* ---- C12 -----------------------------------------------------------------

\* C12: no control block made by wrapping a raw pointer ever destroys its
\* pointee, in particular not once the object is finalized and every shared
\* pointer unwrapped from it is dropped; wrapping a null pointer gives
\* runtime null and makes no object, unwrapping runtime null gives a null
\* pointer.
C12_NonOwning ==
    /\ \A i \in 1 .. Len(pb.objs) :
          pb.objs[i].kind = "raw" => ~pb.objs[i].deleted
    /\ pb.last.op = "wrapPointer" /\ pb.last.arg = NullPtr => pb.last.ret = "null"
    /\ pb.last.op = "wrapPointer" /\ pb.last.ret = "null" => pb.last.arg = NullPtr
    /\ pb.last.op = "unwrapPointer" /\ pb.last.arg = JsNullRef => pb.last.ptr = NullPtr
    /\ pb.last.op = "unwrapPointer" /\ pb.last.arg # JsNullRef =>
          pb.last.ptr = pb.objs[pb.last.arg].pointee

C12_Witness ==
    \E i \in 1 .. Len(pb.objs) :
       /\ pb.objs[i].kind = "raw"
       /\ pb.objs[i].finalized
       /\ pb.objs[i].count = 0
       /\ pb.objs[i].held = 0
       /\ ~pb.objs[i].deleted

---------------------------------------------------------------------------
(***************************************************************************)
(* qjs::module: the export table and the module's initializer              *)
(*                                                                         *)
(* A value added to the table is identified by its position in the table.  *)
(* The engine keeps, per export name, whether the module has an export     *)
(* entry of that name and the value the entry is bound to.                 *)
(***************************************************************************)

NumNames == 2
MaxExports == 3
ExportName == 1 .. NumNames
Unbound == 0

\* Where a module comes from: context::add_module puts it in m_modules, the
\* public constructor alone does not.
ModuleOrigin == {"add_module", "constructor"}

\* JS_AddModuleExport(ctx, m, name): a new entry, or nothing and an
\* exception when the allocation fails or the name has an entry already.
AddModuleExport(entries, name, oom) ==
    IF oom THEN [entries |-> entries, pend |-> "InternalError"]
    ELSE IF name \in entries THEN [entries |-> entries, pend |-> "SyntaxError"]
    ELSE [entries |-> entries \cup {name}, pend |-> "none"]

\* module::add(name, value): the pair goes to the end of the table, which
\* owns the reference it was given; the result of JS_AddModuleExport is
\* not looked at.
Add(m, name, oom) ==
    LET e == AddModuleExport(m.entries, name, oom)
    IN [m EXCEPT !.exports = Append(@, name),
                 !.refs = Append(@, 1),
                 !.entries = e.entries]

\* JS_SetModuleExport(ctx, m, name, val): binds the entry to val and frees
\* the value it was bound to (nothing to free while it is undefined); frees
\* val and fails when the name's atom
\* cannot be made or the module has no entry of that name.
SetModuleExport(m, i, oom) ==
    LET name == m.exports[i]
    IN IF oom \/ name \notin m.entries
       THEN [ok |-> FALSE, m |-> [m EXCEPT !.refs = FreeValue(@, i)]]
       ELSE [ok |-> TRUE,
             m |-> [m EXCEPT !.refs = IF m.bound[name] = Unbound THEN @
                                      ELSE FreeValue(@, m.bound[name]),
                             !.bound[name] = i]]

\* module::set_export(ctx, m, e)
SetExport(m, i, oom) ==
    SetModuleExport([m EXCEPT !.refs = DupValue(@, i)], i, oom)

\* The order std::ranges::all_of visits the table in.
TableOrder(n) == [k \in 1 .. n |-> k]
ReverseOrder(n) == [k \in 1 .. n |-> n + 1 - k]
VisitOrder(n) == TableOrder(n)

\* std::ranges::all_of(it->m_exports, set_export), from the k-th visit on:
\* stops at the first pair whose set fails.  `sets` are the positions
\* visited so far, oomAt the position whose atom cannot be made (0: none).
RECURSIVE AllOf(_, _, _, _, _)
AllOf(m, order, k, sets, oomAt) ==
    IF k > Len(order) THEN [ok |-> TRUE, m |-> m, sets |-> sets]
    ELSE LET r == SetExport(m, order[k], order[k] = oomAt)
         IN IF r.ok THEN AllOf(r.m, order, k + 1, Append(sets, order[k]), oomAt)
            ELSE [ok |-> FALSE, m |-> r.m, sets |-> Append(sets, order[k])]

\* The initializer given to JS_NewCModule: 0 when the module is in the
\* context's list and every set succeeded, -1 otherwise.
ModuleInit(m, oomAt) ==
    IF m.origin # "add_module" THEN [ret |-> -1, m |-> m, sets |-> <<>>]
    ELSE LET r == AllOf(m, VisitOrder(Len(m.exports)), 1, <<>>, oomAt)
         IN [ret |-> IF r.ok THEN 0 ELSE -1, m |-> r.m, sets |-> r.sets]

NoModule ==
    [origin |-> "none", exports |-> <<>>, refs |-> <<>>, entries |-> {},
     bound |-> [n \in ExportName |-> Unbound]]
NoInit == [op |-> "none", ret |-> 0, sets |-> <<>>, oomAt |-> 0, runs |-> 0]

InitMod == md = [m |-> NoModule, last |-> NoInit]

\* context::add_module(name), or module(ctx, name) on its own
NewModule ==
    /\ md.m.origin = "none"
    /\ \E o \in ModuleOrigin : md' = [md EXCEPT !.m.origin = o]
    /\ UNCHANGED pending
    /\ UNCHANGED varsNotMod

\* module::add(name, value)
ModuleAdd ==
    /\ md.m.origin # "none"
    /\ md.last.op = "none"
    /\ Len(md.m.exports) < MaxExports
    /\ \E name \in ExportName, oom \in BOOLEAN :
          LET e == AddModuleExport(md.m.entries, name, oom)
          IN /\ md' = [md EXCEPT !.m = Add(md.m, name, oom)]
             /\ pending' = IF e.pend = "none" THEN pending ELSE e.pend
    /\ UNCHANGED varsNotMod

\* The engine runs the module's initializer.
RunModuleInit ==
    /\ md.m.origin # "none"
    /\ md.last.op = "none"
    /\ \E oomAt \in 0 .. Len(md.m.exports) :
          LET r == ModuleInit(md.m, oomAt)
          IN /\ md' = [m |-> r.m,
                       last |-> [op |-> "init", ret |-> r.ret, sets |-> r.sets,
                                 oomAt |-> oomAt,
                                 runs |-> IF md.last.runs < 2 THEN md.last.runs + 1 ELSE 2]]
             /\ pending' = IF \E k \in 1 .. Len(r.sets) : r.sets[k] = oomAt
                           THEN "InternalError" ELSE pending
    /\ UNCHANGED varsNotMod

\* The engine is done with the initializer's result.
ModuleInitReturned ==
    /\ md.last.op = "init"
    /\ md' = [md EXCEPT !.last.op = "none"]
    /\ UNCHANGED pending
    /\ UNCHANGED varsNotMod

NextMod ==
    \/ NewModule
    \/ ModuleAdd
    \/ RunModuleInit
    \/ ModuleInitReturned
    \/ GetException

\* ---- C13 -----------------------------------------------------------------

\* The positions of the table whose set fails in the run just made.
FailingSets ==
    {i \in 1 .. Len(md.m.exports) :
        i = md.last.oomAt \/ md.m.exports[i] \notin md.m.entries}
\* The position of the pair most recently added under a name.
LastAdded(name) ==
    CHOOSE i \in 1 .. Len(md.m.exports) :
        /\ md.m.exports[i] = name
        /\ \A j \in 1 .. Len(md.m.exports) : md.m.exports[j] = name => j <= i
ExportedNames == {md.m.exports[i] : i \in 1 .. Len(md.m.exports)}
Listed == md.m.origin = "add_module"

\* C13 as stated: every run of the initializer sets each pair of the table.
C13_EveryPairSet ==
    md.last.op = "init" => md.last.sets = TableOrder(Len(md.m.exports))

\* C13: every run of the initializer of a module of the context's list sets
\* the pairs in table order up to the first pair whose set fails and no pair
\* after it (a module that is not in the list sets none); it returns 0
\* exactly when the module is in the list and no set failed, and then every
\* name is bound to the value most recently added under it; after every run
\* the table holds one reference to each value besides the bindings'.
C13_ModuleInit ==
    md.last.op = "init" =>
        /\ \A k \in 1 .. Len(md.last.sets) : md.last.sets[k] = k
        /\ Listed =>
              Len(md.last.sets) =
                 IF FailingSets = {} THEN Len(md.m.exports)
                 ELSE CHOOSE i \in FailingSets : \A j \in FailingSets : i <= j
        /\ ~Listed => md.last.sets = <<>>
        /\ md.last.ret = 0 <=> (Listed /\ FailingSets = {})
        /\ md.last.ret = 0 =>
              \A name \in ExportedNames : md.m.bound[name] = LastAdded(name)
        /\ \A i \in 1 .. Len(md.m.exports) :
              md.m.refs[i] = 1 + Cardinality({n \in ExportName : md.m.bound[n] = i})

C13_Witness ==
    /\ md.last.op = "init"
    /\ md.last.runs = 2
    /\ md.last.ret = 0
    /\ Len(md.m.exports) = MaxExports
    /\ \E i, j \in 1 .. Len(md.m.exports) :
          /\ i < j
          /\ md.m.exports[i] = md.m.exports[j]
          /\ md.m.bound[md.m.exports[i]] = j

---------------------------------------------------------------------------
(***************************************************************************)
(* The callbacks the engine calls besides wrapped functions                *)
(*                                                                         *)
(* The constructor of a bound class, a module's initializer, the job       *)
(* callback of context::enqueue_job, runtime::module_loader and the        *)
(* continuation closure of value::invoke_then.  A call records what the    *)
(* native code inside threw and how the callback ended: it returned to the *)
(* engine, the exception left the callback into the engine's frames, or    *)
(* the process was terminated.                                             *)
(***************************************************************************)

NativeFailure == {"none", "bridge", "std", "other"}

BndOut(disp, ret, pend, msg) ==
    [disp |-> disp, ret |-> ret, pend |-> pend, msg |-> msg]

\* catch (const exception&) / catch (const std::exception&) / catch (...):
\* the exception the thrower left pending, or an InternalError with what()
\* or with "Unknown error".
CatchClauses(failure, ret) ==
    CASE failure = "bridge" -> BndOut("returned", ret, "Error", "thrown")
      [] failure = "std" -> BndOut("returned", ret, "InternalError", "what")
      [] failure = "other" -> BndOut("returned", ret, "InternalError", "Unknown error")

\* A callback without handlers.
NoCatchClauses(failure, ret, ub) == BndOut(ub, "none", "none", "none")

\* What an exception that leaves a callback called from the engine's C
\* frames ends in: it unwinds through them to the embedder, or the process
\* is terminated.
EscapeOutcome == {"escaped", "terminated"}

\* The job callback of context::enqueue_job: the function argv[0] is
\* unwrapped and called inside the try block.
JobCallback(failure) ==
    IF failure = "none" THEN BndOut("returned", "undefined", "none", "none")
    ELSE CatchClauses(failure, "exception")

\* runtime::module_loader: the context's loader function, the evaluation
\* of the source and the setting of import.meta are inside the try block;
\* a loader that gives no source ends in a ReferenceError.
LoaderSite == {"loader", "eval", "meta"}
ModuleLoader(hasSource, failure) ==
    IF failure # "none" THEN CatchClauses(failure, "null")
    ELSE IF ~hasSource THEN BndOut("returned", "null", "ReferenceError", "thrown")
    ELSE BndOut("returned", "module", "none", "none")

\* The initializer given to JS_NewCModule: nothing in it throws.
ModuleInitializer(listed, setsOk) ==
    BndOut("returned", IF listed /\ setsOk THEN "0" ELSE "-1", "none", "none")

\* The closure of value::invoke_then<R>: R is void, or the result is
\* unwrapped from argv[0] as R before the callback is called.  There is no
\* try block.
ThenResult == {"void", "int32"}
ThenFailure(R, val, cbFailure) ==
    IF R # "void" /\ ~UnwrapInteger(R, val).ok THEN "bridge" ELSE cbFailure
ThenClosure(R, val, cbFailure, ub) ==
    IF ThenFailure(R, val, cbFailure) = "none"
    THEN BndOut("returned", "null", "none", "none")
    ELSE NoCatchClauses(ThenFailure(R, val, cbFailure), "exception", ub)

\* The failure a constructor call meets inside its try block.
CtorFailure(acc, b) ==
    CASE acc.status = "bridge" -> "bridge"
      [] acc.status = "std" -> "std"
      [] acc.status = "ok" /\ b = "throwBridge" -> "bridge"
      [] acc.status = "ok" /\ b \in {"throwStd", "slotFails"} -> "std"
      [] acc.status = "ok" /\ b = "throwOther" -> "other"
      [] OTHER -> "none"

\* The constructor function: register_class(ctx) is called before the try
\* block, in a lambda declared noexcept.
CtorBoundary(acc, b, registerThrows) ==
    IF b = "protoFails" THEN BndOut("returned", "exception", "Error", "thrown")
    ELSE IF registerThrows THEN BndOut("terminated", "none", "InternalError", "none")
    ELSE IF b = "objectFails"
    THEN BndOut("returned", "exception", "InternalError", "thrown")
    ELSE IF CtorFailure(acc, b) = "none"
    THEN BndOut("returned", "object", "none", "none")
    ELSE LET out == CtorCallOutcome(acc, b)
             c == CatchClauses(CtorFailure(acc, b), out.ret)
         IN [c EXCEPT !.pend = out.pend]

NoBoundary ==
    [op |-> "none", boundary |-> "none", failure |-> "none", input |-> <<>>,
     out |-> BndOut("returned", "none", "none", "none")]

InitBnd == bd = NoBoundary

BndCall(boundary, failure, input, out) ==
    /\ bd' = [op |-> "call", boundary |-> boundary, failure |-> failure,
              input |-> input, out |-> out]
    /\ pending' = out.pend

\* The engine constructs an object of a bound class.
BndCtor ==
    /\ bd.op = "none"
    /\ pending = "none"
    /\ \E f \in CtorShape, argv \in SeqUpTo(ArgValue, MaxArgc) :
       \E order \in EvalOrder, b \in CtorBehaviour, registerThrows \in BOOLEAN :
          LET c == [f |-> f, argc |-> Len(argv), argv |-> argv,
                    this |-> JsUndefined, oob |-> JsFault]
              acc == RunSteps(c, AccInit, Ordered(ApplySteps(f, Len(argv)), order))
          IN BndCall("ctor",
                     IF registerThrows /\ b # "protoFails" THEN "bridge"
                     ELSE IF b \in {"protoFails", "objectFails"} THEN "none"
                     ELSE CtorFailure(acc, b),
                     <<f, argv, b>>, CtorBoundary(acc, b, registerThrows))
    /\ UNCHANGED varsNotBnd

\* The engine initializes a module.
BndModuleInit ==
    /\ bd.op = "none"
    /\ pending = "none"
    /\ \E listed \in BOOLEAN, setsOk \in BOOLEAN :
          BndCall("moduleInit", "none", <<listed, setsOk>>,
                  ModuleInitializer(listed, setsOk))
    /\ UNCHANGED varsNotBnd

\* The engine executes a job enqueued with the job callback.
BndJob ==
    /\ bd.op = "none"
    /\ pending = "none"
    /\ \E failure \in NativeFailure :
          BndCall("job", failure, <<>>, JobCallback(failure))
    /\ UNCHANGED varsNotBnd

\* The engine resolves an import through the module loader.
BndLoader ==
    /\ bd.op = "none"
    /\ pending = "none"
    /\ \E hasSource \in BOOLEAN, site \in LoaderSite, failure \in NativeFailure :
          /\ site \in {"eval", "meta"} => hasSource /\ failure \in {"none", "bridge", "std"}
          /\ BndCall("loader", failure, <<hasSource, site>>,
                     ModuleLoader(hasSource, failure))
    /\ UNCHANGED varsNotBnd

\* A promise is fulfilled with val and the engine runs the continuation
\* registered by invoke_then<R>.
BndThen ==
    /\ bd.op = "none"
    /\ pending = "none"
    /\ \E R \in ThenResult, val \in ArgValue :
       \E cbFailure \in NativeFailure, ub \in EscapeOutcome :
          BndCall("then", ThenFailure(R, val, cbFailure), <<R, val>>,
                  ThenClosure(R, val, cbFailure, ub))
    /\ UNCHANGED varsNotBnd

\* The engine, or whoever the exception reached, goes on.
BndReturned ==
    /\ bd.op = "call"
    /\ bd' = NoBoundary
    /\ UNCHANGED pending
    /\ UNCHANGED varsNotBnd

NextBnd ==
    \/ BndCtor
    \/ BndModuleInit
    \/ BndJob
    \/ BndLoader
    \/ BndThen
    \/ BndReturned
    \/ GetException

\* ---- C14 -----------------------------------------------------------------

\* C14: whenever native code inside one of these callbacks throws, the
\* callback returns to the engine with an exception pending: the one the
\* thrower raised, or an InternalError carrying what(), or "Unknown error"
\* for a failure that is not a std::exception.
C14_NoEscape ==
    bd.op = "call" /\ bd.failure # "none" =>
        /\ bd.out.disp = "returned"
        /\ bd.out.pend # "none"
        /\ bd.failure = "std" => bd.out.msg = "what"
        /\ bd.failure = "other" => bd.out.msg = "Unknown error"

\* The callbacks that have the three catch clauses around everything that
\* throws do as C14 says.
C14_GuardedBoundaries ==
    /\ bd.op = "call"
    /\ bd.failure # "none"
    /\ bd.boundary \in {"job", "loader"} \/ (bd.boundary = "ctor" /\ bd.out.disp # "terminated")
    => /\ bd.out.disp = "returned"
       /\ bd.out.pend # "none"
       /\ bd.failure = "std" => bd.out.msg = "what"
       /\ bd.failure = "other" => bd.out.msg = "Unknown error"

---------------------------------------------------------------------------
(***************************************************************************)
(* Container conversions: detail::get_properties, js_traits<std::pair>,    *)
(* js_traits<Range>                                                        *)
(*                                                                         *)
(* A runtime object is its own properties: per key whether it is there,    *)
(* whether it is enumerable and its value.  The keys are the array         *)
(* indices "0", "1" and "9", the name "a", "length" and a Symbol.  A       *)
(* ledger counts the references a conversion acquires and releases.        *)
(***************************************************************************)

PropKey == {"0", "1", "9", "a", "length", "sym"}
\* The order JS_GetOwnPropertyNames lists the keys in: array indices
\* ascending, then names in creation order, then Symbols.
KeyOrder == <<"0", "1", "9", "a", "length", "sym">>
IsSymbolKey(k) == k = "sym"
\* ToNumber of the key's string: the index, or NaN (0 as an integer).
KeyNumber(k) == CASE k = "1" -> 1 [] k = "9" -> 9 [] OTHER -> 0

MaxLength == 3
Absent == [has |-> FALSE, enum |-> FALSE, val |-> JsUndefined]
Prop(enum, val) == [has |-> TRUE, enum |-> enum, val |-> val]
ElemValue == {JsNum(1), JsSymbol}

\* The objects given to the conversions: elements at "0" and "1", further
\* enumerable and non-enumerable properties, and possibly a "length" as
\* arrays have it (not enumerable).
PropChoice(k) ==
    CASE k \in {"0", "1"} -> {Absent} \cup {Prop(TRUE, v) : v \in ElemValue}
      [] k = "9" -> {Absent, Prop(TRUE, JsNum(1))}
      [] k = "a" -> {Absent, Prop(TRUE, JsNum(1)), Prop(FALSE, JsNum(1))}
      [] k = "sym" -> {Absent, Prop(TRUE, JsNum(1))}
      [] k = "length" -> {Absent} \cup {Prop(FALSE, JsNum(n)) : n \in 1 .. MaxLength}
CnObject(props) == [tag |-> "object", props |-> props]
CnObjects ==
    {CnObject([k \in PropKey |->
                 CASE k = "0" -> p0 [] k = "1" -> p1 [] k = "9" -> p9
                   [] k = "a" -> pa [] k = "length" -> pl [] OTHER -> ps]) :
        p0 \in PropChoice("0"), p1 \in PropChoice("1"), p9 \in PropChoice("9"),
        pa \in PropChoice("a"), pl \in PropChoice("length"), ps \in PropChoice("sym")}
CnNull == [tag |-> "null", props |-> [k \in PropKey |-> Absent]]
CnNumber == [tag |-> "num", props |-> [k \in PropKey |-> Absent]]
CnValue == CnObjects \cup {CnNull, CnNumber}

\* JS_NewArray and two JS_SetPropertyUint32: the array [e0, e1]
CnArray2(e0, e1) ==
    CnObject([k \in PropKey |->
                CASE k = "0" -> Prop(TRUE, e0)
                  [] k = "1" -> Prop(TRUE, e1)
                  [] k = "length" -> Prop(FALSE, JsNum(2))
                  [] OTHER -> Absent])

\* The references a conversion acquired and released, per kind: the name
\* array, the names' atoms, the key and property values, the elements read
\* and the result being built.
Resource == {"array", "atom", "key", "value", "element", "result"}
NoLedger == [acq |-> [r \in Resource |-> 0], rel |-> [r \in Resource |-> 0]]
Acquire(l, r, n) == [l EXCEPT !.acq[r] = @ + n]
ReleaseOf(l, r) == [l EXCEPT !.rel[r] = @ + 1]

\* detail::unwrap_free<T>(ctx, val) for an integral T: the value is freed
\* whether unwrap returns or throws.
UnwrapFree(T, val, l, r) ==
    [out |-> UnwrapInteger(T, val), ledger |-> ReleaseOf(l, r)]

\* unwrap_free<K>(ctx, JS_AtomToValue(ctx, atom)): the key's string for
\* K = std::string, else the string converted to the integral K.
KeyType == {"string", "int8"}
UnwrapFreeKey(K, name, l) ==
    IF K = "string"
    THEN [out |-> Returned(JsNull, [has |-> TRUE, x |-> name]), ledger |-> ReleaseOf(l, "key")]
    ELSE UnwrapFree(K, JsNum(KeyNumber(name)), l, "key")

\* The names get_properties asks for: JS_GPN_STRING_MASK, enumerable or
\* not.
StringNames(v) ==
    SelectSeq(KeyOrder, LAMBDA k : v.props[k].has /\ ~IsSymbolKey(k))
EnumerableNames(v) ==
    SelectSeq(KeyOrder, LAMBDA k : v.props[k].has /\ ~IsSymbolKey(k) /\ v.props[k].enum)

CnOut(ok, err, entries, ledger) ==
    [ok |-> ok, err |-> err, entries |-> entries, ledger |-> ledger]

\* result.emplace(k, x): no effect when the key is there already.
Emplace(entries, k, x) ==
    IF \E e \in entries : e[1] = k THEN entries ELSE entries \cup {<<k, x>>}

\* The loop of get_properties<K, V> from the i-th name on.  The two
\* arguments of emplace are evaluated in the order the compiler chooses.
RECURSIVE PropertiesLoop(_, _, _, _, _, _, _, _)
PropertiesLoop(v, names, i, K, V, order, entries, l) ==
    IF i > Len(names) THEN CnOut(TRUE, "none", entries, l)
    ELSE LET name == names[i]
             l1 == Acquire(Acquire(l, "key", 1), "value", 1)
             first == IF order = "ltr"
                      THEN UnwrapFreeKey(K, name, l1)
                      ELSE UnwrapFree(V, v.props[name].val, l1, "value")
             second == IF order = "ltr"
                       THEN UnwrapFree(V, v.props[name].val, first.ledger, "value")
                       ELSE UnwrapFreeKey(K, name, first.ledger)
             kc == IF order = "ltr" THEN first.out ELSE second.out
             vc == IF order = "ltr" THEN second.out ELSE first.out
         IN IF ~first.out.ok THEN CnOut(FALSE, first.out.err, {}, first.ledger)
            ELSE IF ~second.out.ok THEN CnOut(FALSE, second.out.err, {}, second.ledger)
            ELSE PropertiesLoop(v, names, i + 1, K, V, order,
                                Emplace(entries, kc.nat.x, vc.nat.x),
                                ReleaseOf(second.ledger, "atom"))

\* detail::get_properties<K, V>(ctx, v)
GetProperties(v, K, V, namesFail, order) ==
    IF v.tag # "object" THEN CnOut(FALSE, "TypeError", {}, NoLedger)
    ELSE IF namesFail THEN CnOut(FALSE, "InternalError", {}, NoLedger)
    ELSE LET names == StringNames(v)
         IN PropertiesLoop(v, names, 1, K, V, order, {},
                           Acquire(Acquire(NoLedger, "array", 1), "atom", Len(names)))

\* JS_GetLength(ctx, val, &length): fails for null (no properties can be
\* read); a missing length is 0.
GetLength(v) ==
    IF v.tag = "null" THEN [ok |-> FALSE, length |-> 0]
    ELSE IF v.props["length"].has
    THEN [ok |-> TRUE, length |-> ToNumber(v.props["length"].val)]
    ELSE [ok |-> TRUE, length |-> 0]

\* JS_GetPropertyUint32(ctx, val, i), JS_GetPropertyInt64(ctx, val, i):
\* undefined when the object has no property i.
GetPropertyUint32(v, i) ==
    CASE i = 0 -> v.props["0"].val
      [] i = 1 -> v.props["1"].val
      [] i = 9 -> v.props["9"].val
      [] OTHER -> JsUndefined

\* js_traits<std::pair<U, V>>::unwrap: the two arguments of std::make_pair
\* are evaluated in the order the compiler chooses, each reading its
\* element and converting it.
UnwrapPair(v, U, V, order) ==
    IF ~GetLength(v).ok \/ GetLength(v).length # 2
    THEN CnOut(FALSE, "TypeError", {}, NoLedger)
    ELSE LET T1 == IF order = "ltr" THEN U ELSE V
             T2 == IF order = "ltr" THEN V ELSE U
             i1 == IF order = "ltr" THEN 0 ELSE 1
             first == UnwrapFree(T1, GetPropertyUint32(v, i1),
                                 Acquire(NoLedger, "element", 1), "element")
             second == UnwrapFree(T2, GetPropertyUint32(v, 1 - i1),
                                  Acquire(first.ledger, "element", 1), "element")
             x == IF order = "ltr" THEN first.out ELSE second.out
             y == IF order = "ltr" THEN second.out ELSE first.out
         IN IF ~first.out.ok THEN CnOut(FALSE, first.out.err, {}, first.ledger)
            ELSE IF ~second.out.ok THEN CnOut(FALSE, second.out.err, {}, second.ledger)
            ELSE CnOut(TRUE, "none", {<<x.nat.x, y.nat.x>>}, second.ledger)

\* js_traits<std::pair<U, V>>::wrap (noexcept): the handlers return
\* JS_EXCEPTION; the array made by JS_NewArray is not freed there.  The
\* array returned to the caller is the caller's.
WrapPair(p, U, V) ==
    LET l == Acquire(NoLedger, "result", 1)
        w0 == WrapInteger(U, p[1])
        w1 == WrapInteger(V, p[2])
    IN IF ~w0.ok THEN [ok |-> FALSE, err |-> w0.err, js |-> CnNull, ledger |-> l]
       ELSE IF ~w1.ok THEN [ok |-> FALSE, err |-> w1.err, js |-> CnNull, ledger |-> l]
       ELSE [ok |-> TRUE, err |-> "none", js |-> CnArray2(w0.js, w1.js), ledger |-> l]

\* The "got %d" of the message for a wrong length is not modelled.

\* js_traits<Range>::unwrap for a sequence of T: the elements 0 .. length-1
\* are read and converted one after the other.
RECURSIVE SequenceLoop(_, _, _, _, _, _)
SequenceLoop(v, T, i, length, xs, l) ==
    IF i >= length THEN CnOut(TRUE, "none", {xs}, l)
    ELSE LET e == UnwrapFree(T, GetPropertyUint32(v, i), Acquire(l, "element", 1), "element")
         IN IF ~e.out.ok THEN CnOut(FALSE, e.out.err, {}, e.ledger)
            ELSE SequenceLoop(v, T, i + 1, length, Append(xs, e.out.nat.x), e.ledger)
UnwrapSequence(v, T) ==
    IF ~GetLength(v).ok THEN CnOut(FALSE, "TypeError", {}, NoLedger)
    ELSE SequenceLoop(v, T, 0, GetLength(v).length, <<>>, NoLedger)

\* js_traits<Range>::wrap for a sequence of T: no handler; an exception
\* from an element's wrap leaves the function with the array not freed.
WrapSequence(xs, T) ==
    LET l == Acquire(NoLedger, "result", 1)
        bad == {i \in 1 .. Len(xs) : ~WrapInteger(T, xs[i]).ok}
    IN IF bad # {}
       THEN [ok |-> FALSE, err |-> "RangeError", js |-> CnNull, ledger |-> l]
       ELSE [ok |-> TRUE, err |-> "none",
             js |-> CnObject([k \in PropKey |->
                       CASE k = "0" /\ Len(xs) >= 1 -> Prop(TRUE, WrapInteger(T, xs[1]).js)
                         [] k = "1" /\ Len(xs) >= 2 -> Prop(TRUE, WrapInteger(T, xs[2]).js)
                         [] k = "length" -> Prop(FALSE, JsNum(Len(xs)))
                         [] OTHER -> Absent]),
             ledger |-> l]

\* The element types of the pairs and sequences converted.
ElemType == {"int32", "int64", "uint64"}
SecondType == "int32"
\* The native values converted: the ends of the type's range, and in
\* between.
NativeValues(T) == {MinOf(T), -1, 0, 1, MaxOf(T) - 1, MaxOf(T)} \cap ValuesOf(T)

NoCn ==
    [op |-> "none", v |-> CnNull, T |-> "int32", order |-> "ltr", p |-> <<0, 0>>,
     out |-> CnOut(TRUE, "none", {}, NoLedger), wrapped |-> CnNull]

InitCn == cn = NoCn

CnResult(op, v, T, order, p, out, wrapped) ==
    /\ cn' = [op |-> op, v |-> v, T |-> T, order |-> order, p |-> p,
              out |-> [ok |-> out.ok, err |-> out.err, entries |-> out.entries,
                       ledger |-> out.ledger],
              wrapped |-> wrapped]
    /\ pending' = IF out.ok THEN pending ELSE out.err

\* value.as<Map>() for a mapped container with keys K and int32_t values
DoUnwrapMap ==
    /\ cn.op = "none"
    /\ pending = "none"
    /\ \E v \in CnValue, K \in KeyType, namesFail \in BOOLEAN, order \in EvalOrder :
          /\ namesFail => v.tag = "object"
          /\ CnResult(IF namesFail THEN "unwrapMapNoNames" ELSE "unwrapMap", v, K, order,
                      <<0, 0>>, GetProperties(v, K, "int32", namesFail, order), CnNull)
    /\ UNCHANGED varsNotCn

\* value.as<std::pair<U, int32_t>>()
DoUnwrapPair ==
    /\ cn.op = "none"
    /\ pending = "none"
    /\ \E v \in CnValue, U \in ElemType, order \in EvalOrder :
          CnResult("unwrapPair", v, U, order, <<0, 0>>,
                   UnwrapPair(v, U, SecondType, order), CnNull)
    /\ UNCHANGED varsNotCn

\* wrap<std::pair<U, int32_t>>(p), and the unwrap of what it returned
DoWrapPair ==
    /\ cn.op = "none"
    /\ pending = "none"
    /\ \E U \in ElemType, order \in EvalOrder :
       \E x \in NativeValues(U), y \in NativeValues(SecondType) :
          LET w == WrapPair(<<x, y>>, U, SecondType)
              u == IF w.ok THEN UnwrapPair(w.js, U, SecondType, order)
                   ELSE CnOut(FALSE, w.err, {}, NoLedger)
          IN CnResult("wrapPair", w.js, U, order, <<x, y>>,
                      [ok |-> w.ok, err |-> w.err, entries |-> u.entries,
                       ledger |-> w.ledger],
                      w.js)
    /\ UNCHANGED varsNotCn

\* value.as<std::vector<T>>()
DoUnwrapSequence ==
    /\ cn.op = "none"
    /\ pending = "none"
    /\ \E v \in CnValue, T \in ElemType :
          CnResult("unwrapSequence", v, T, "ltr", <<0, 0>>, UnwrapSequence(v, T), CnNull)
    /\ UNCHANGED varsNotCn

\* wrap<std::vector<T>>(xs)
DoWrapSequence ==
    /\ cn.op = "none"
    /\ pending = "none"
    /\ \E T \in ElemType : \E xs \in SeqUpTo(NativeValues(T), 2) :
          LET w == WrapSequence(xs, T)
          IN CnResult("wrapSequence", w.js, T, "ltr", <<Len(xs), 0>>,
                      [ok |-> w.ok, err |-> w.err, entries |-> {xs}, ledger |-> w.ledger],
                      w.js)
    /\ UNCHANGED varsNotCn

\* The caller is done with the result.
CnDone ==
    /\ cn.op # "none"
    /\ cn' = NoCn
    /\ UNCHANGED pending
    /\ UNCHANGED varsNotCn

NextCn ==
    \/ DoUnwrapMap
    \/ DoUnwrapPair
    \/ DoWrapPair
    \/ DoUnwrapSequence
    \/ DoWrapSequence
    \/ CnDone
    \/ GetException

\* ---- C15 -----------------------------------------------------------------

\* Every reference of kind r acquired in the last conversion was released.
Balanced(r) == cn.out.ledger.rel[r] = cn.out.ledger.acq[r]

\* C15: after every container conversion, failed or not, each reference it
\* acquired on the way (name array, atoms, keys, values, elements) was
\* released exactly once, and so was the result under construction when
\* the conversion failed.
C15_TransientsReleased ==
    cn.op # "none" =>
        /\ \A r \in Resource \ {"result"} : Balanced(r)
        /\ ~cn.out.ok => Balanced("result")

\* The element reads of pair and sequence unwrap are balanced on every path.
C15_ElementsReleased ==
    cn.op \in {"unwrapPair", "unwrapSequence"} => \A r \in Resource : Balanced(r)

\* ---- C17 -----------------------------------------------------------------

\* C17: unwrap of a pair succeeds only for a value whose length is 2, and
\* then gives the two elements converted; a value whose length cannot be
\* read or is not 2 fails with TypeError; wrap of a pair gives an array of
\* length 2 from which unwrap gives the pair back.
C17_Pair ==
    /\ cn.op = "unwrapPair" =>
          /\ cn.out.ok =>
                /\ GetLength(cn.v).ok /\ GetLength(cn.v).length = 2
                /\ cn.out.entries =
                      {<<UnwrapInteger(cn.T, GetPropertyUint32(cn.v, 0)).nat.x,
                         UnwrapInteger(SecondType, GetPropertyUint32(cn.v, 1)).nat.x>>}
          /\ (~GetLength(cn.v).ok \/ GetLength(cn.v).length # 2) =>
                (~cn.out.ok /\ cn.out.err = "TypeError")
    /\ cn.op = "wrapPair" =>
          /\ cn.out.ok
          /\ GetLength(cn.wrapped).ok /\ GetLength(cn.wrapped).length = 2
          /\ cn.out.entries = {cn.p}

\* The same for pairs of int32_t, whose wrap is exact.
C17_PairOfInt32 ==
    cn.T = "int32" => C17_Pair

\* ---- C18 -----------------------------------------------------------------

\* The own enumerable properties of the converted value with a string or
\* integer key.
OwnEnumerable ==
    {k \in PropKey : cn.v.props[k].has /\ cn.v.props[k].enum /\ ~IsSymbolKey(k)}

\* C18: unwrap of a mapped container fails with TypeError for a value that
\* is not an object; when it succeeds the result has exactly one entry per
\* own enumerable string- or integer-keyed property, with its key and its
\* value converted; and it fails when the value of one of these properties
\* does not convert.
C18_MapEntries ==
    cn.op = "unwrapMap" =>
        /\ cn.v.tag # "object" => (~cn.out.ok /\ cn.out.err = "TypeError")
        /\ cn.out.ok =>
              /\ Cardinality(cn.out.entries) = Cardinality(OwnEnumerable)
              /\ \A k \in OwnEnumerable :
                    \E e \in cn.out.entries :
                       e[2] = UnwrapInteger("int32", cn.v.props[k].val).nat.x
        /\ (\E k \in OwnEnumerable : ~UnwrapInteger("int32", cn.v.props[k].val).ok)
              => ~cn.out.ok

\* The same with the properties JS_GPN_STRING_MASK selects, enumerable or
\* not, and string keys.
C18_AllStringKeyed ==
    cn.op = "unwrapMap" /\ cn.T = "string" =>
        /\ cn.v.tag # "object" => (~cn.out.ok /\ cn.out.err = "TypeError")
        /\ cn.out.ok =>
              cn.out.entries =
                 {<<StringNames(cn.v)[i],
                    UnwrapInteger("int32", cn.v.props[StringNames(cn.v)[i]].val).nat.x>> :
                     i \in 1 .. Len(StringNames(cn.v))}
        /\ (\E i \in 1 .. Len(StringNames(cn.v)) :
               ~UnwrapInteger("int32", cn.v.props[StringNames(cn.v)[i]].val).ok)
              => ~cn.out.ok

---------------------------------------------------------------------------
(***************************************************************************)
(* property_traits<Integer>: properties with integer keys                  *)
(***************************************************************************)

\* static_cast<int64_t>(idx), static_cast<uint32_t>(idx)
CastInt64(idx) == WrapSigned(idx, ScaledBits(8))
CastUint32(idx) == WrapUnsigned(idx, ScaledBits(4))

\* std::numeric_limits<Integer>::max() > UINT32_MAX || std::is_signed_v<Integer>
UsesInt64(T) == MaxOf(T) > Uint32Max \/ ~IsUnsigned(T)

\* property_traits<Integer>::get and set: the engine's accessor called and
\* the index it is given.
IndexAccess(T, idx) ==
    IF UsesInt64(T) THEN [accessor |-> "Int64", idx |-> CastInt64(idx)]
    ELSE [accessor |-> "Uint32", idx |-> CastUint32(idx)]

NoAccess == [op |-> "none", T |-> "int8", key |-> 0, accessor |-> "none", idx |-> 0]

InitProp == pk = NoAccess

\* property_traits<Integer>::get(ctx, this_obj, idx)
PropertyGet ==
    /\ pk.op = "none"
    /\ \E T \in IntType : \E k \in ValuesOf(T) :
          pk' = [op |-> "get", T |-> T, key |-> k,
                 accessor |-> IndexAccess(T, k).accessor, idx |-> IndexAccess(T, k).idx]
    /\ UNCHANGED pending
    /\ UNCHANGED varsNotProp

\* property_traits<Integer>::set(ctx, this_obj, idx, val); a failing set
\* throws with the engine's exception pending.
PropertySet ==
    /\ pk.op = "none"
    /\ pending = "none"
    /\ \E T \in IntType, fails \in BOOLEAN : \E k \in ValuesOf(T) :
          /\ pk' = [op |-> IF fails THEN "setThrown" ELSE "set", T |-> T, key |-> k,
                    accessor |-> IndexAccess(T, k).accessor, idx |-> IndexAccess(T, k).idx]
          /\ pending' = IF fails THEN "TypeError" ELSE pending
    /\ UNCHANGED varsNotProp

\* The caller goes on.
PropertyDone ==
    /\ pk.op # "none"
    /\ pk' = NoAccess
    /\ UNCHANGED pending
    /\ UNCHANGED varsNotProp

NextProp ==
    \/ PropertyGet
    \/ PropertySet
    \/ PropertyDone
    \/ GetException

\* ---- C19 -----------------------------------------------------------------

\* C19: the index given to the engine is the key, as a mathematical
\* integer; signed keys and keys wider than 32 bits use the signed 64-bit
\* accessor, unsigned keys of at most 32 bits the unsigned 32-bit one.
C19_IndexIsKey ==
    pk.op # "none" =>
        /\ pk.idx = pk.key
        /\ pk.accessor =
              IF ~IsUnsigned(pk.T) \/ SizeOf(pk.T) > 4 THEN "Int64" ELSE "Uint32"

\* The same for every key that is not a uint64_t above INT64_MAX.
C19_RepresentableKeys ==
    pk.op # "none" /\ pk.key <= Int64Max =>
        /\ pk.idx = pk.key
        /\ pk.accessor =
              IF ~IsUnsigned(pk.T) \/ SizeOf(pk.T) > 4 THEN "Int64" ELSE "Uint32"

---------------------------------------------------------------------------
(***************************************************************************)
(* Class identities and installed classes across runtimes                  *)
(*                                                                         *)
(* qjs_class_id and mark_offsets are statics of the process, one per       *)
(* native type; each runtime allocates class ids from its own counter and  *)
(* has its own table of installed classes.                                 *)
(***************************************************************************)

NumRuntimes == 2
NumTypes == 2
MaxMarks == 1
Runtime == 1 .. NumRuntimes
BoundType == 1 .. NumTypes
ClassId == 1 .. NumTypes

\* An entry of a runtime's class table: the type whose register_class
\* installed it (0 for none) and whether its JSClassDef has a gc_mark.
NoClass == [T |-> 0, marker |-> FALSE]

\* JS_IsRegisteredClass(rt, class_id)
IsRegisteredClass(c, rt, id) == id \in ClassId /\ c.classes[rt][id].T # 0

\* if (!is_registered()) JS_NewClassID(rt, &qjs_class_id): the id comes from
\* the runtime's counter.
ReallocateId(c, rt, T) ==
    [c EXCEPT !.id[T] = c.alloc[rt] + 1, !.alloc[rt] = @ + 1]
AllocateId(c, rt, T) ==
    LET st == NewClassID(Statics(c.id, c.alloc[rt], <<>>, <<>>), T)
    IN [c EXCEPT !.id = st.id, !.alloc[rt] = st.count]

\* JSClassGCMark* marker{}; if (!mark_offsets.empty()) marker = ...
MarkerFor(c, T) == c.marks[T] > 0

\* js_traits<std::shared_ptr<T>>::register_class(ctx, name, proto): the
\* class is installed when the runtime has none under the id; JS_NewClass
\* can fail, and then register_class throws.
RegisterClassIn(c, rt, T, newClassFails) ==
    LET c1 == AllocateId(c, rt, T)
        id == c1.id[T]
    IN IF IsRegisteredClass(c1, rt, id) THEN [c |-> c1, thrown |-> FALSE]
       ELSE IF newClassFails THEN [c |-> c1, thrown |-> TRUE]
       ELSE [c |-> [c1 EXCEPT !.classes[rt][id] = [T |-> T, marker |-> MarkerFor(c1, T)]],
             thrown |-> FALSE]

\* JS_NewObjectClass(ctx, qjs_class_id) gives an object or fails.  With an
\* id under which the runtime has no class it reads the runtime's class
\* table at an entry that was never defined: the call fails, or it gives
\* an object of a class without finalizer and gc_mark.
NewObjectOutcome == {"exception", "object"}

\* if (!is_registered()) register_class(ctx); then the object is made with
\* JS_NewObjectClass / JS_NewObjectProtoClass(ctx, ..., qjs_class_id).
NewBoundObject(c, rt, T, newClassFails, newObject) ==
    LET r == IF c.id[T] = InvalidClassId THEN RegisterClassIn(c, rt, T, newClassFails)
             ELSE [c |-> c, thrown |-> FALSE]
    IN [c |-> r.c, thrown |-> r.thrown,
        obj |-> ~r.thrown /\ newObject = "object"]

\* The gc_mark of the class an object of T was made with, run by the
\* collector: the members of mark_offsets, as they are now, of the type the
\* class was installed for.
MarkedMembers(c, rt, T) ==
    LET class == c.classes[rt][c.id[T]]
    IN IF class.marker THEN 1 .. c.marks[class.T] ELSE {}

NoClassOp == [op |-> "none", rt |-> 1, T |-> 1, obj |-> FALSE, thrown |-> FALSE,
              fresh |-> FALSE, reported |-> {}]

InitCls ==
    ci = [id |-> [T \in BoundType |-> InvalidClassId],
          alloc |-> [rt \in Runtime |-> 0],
          classes |-> [rt \in Runtime |-> [id \in ClassId |-> NoClass]],
          marks |-> [T \in BoundType |-> 0],
          touched |-> [T \in BoundType |-> FALSE],
          last |-> NoClassOp]

ClsResult(c, op, rt, T, obj, thrown) ==
    /\ ci' = [c EXCEPT !.touched[T] = TRUE,
                       !.last = [op |-> op, rt |-> rt, T |-> T, obj |-> obj,
                                 thrown |-> thrown,
                                 fresh |-> ci.id[T] = InvalidClassId,
                                 reported |-> {}]]
    /\ pending' = IF thrown THEN "InternalError" ELSE pending

\* context::register_class<T>(name, proto) in a context of runtime rt
ClsRegister ==
    /\ ci.last.op = "none"
    /\ pending = "none"
    /\ \E rt \in Runtime, T \in BoundType, newClassFails \in BOOLEAN :
          LET r == RegisterClassIn(ci, rt, T, newClassFails)
          IN ClsResult(r.c, "register", rt, T, FALSE, r.thrown)
    /\ UNCHANGED varsNotCls

\* ensure_can_cast_to_base<B>(ctx) for a base B of T
ClsCastEnable ==
    /\ ci.last.op = "none"
    /\ pending = "none"
    /\ \E rt \in Runtime, T \in BoundType :
          /\ Ancestors(T) # {}
          /\ ClsResult(AllocateId(ci, rt, T), "castEnable", rt, T, FALSE, FALSE)
    /\ UNCHANGED varsNotCls

\* wrap<std::shared_ptr<T>>(ctx, ptr) or wrap<T*>(ctx, ptr) of a pointer
\* that is not null
ClsWrap ==
    /\ ci.last.op = "none"
    /\ pending = "none"
    /\ \E rt \in Runtime, T \in BoundType, newClassFails \in BOOLEAN,
          newObject \in NewObjectOutcome :
          LET r == NewBoundObject(ci, rt, T, newClassFails, newObject)
          IN ClsResult(r.c, "wrap", rt, T, r.obj, r.thrown)
    /\ UNCHANGED varsNotCls

\* A registered constructor of T is called in runtime rt.
ClsConstruct ==
    /\ ci.last.op = "none"
    /\ pending = "none"
    /\ \E rt \in Runtime, T \in BoundType, newClassFails \in BOOLEAN,
          newObject \in NewObjectOutcome :
          LET r == NewBoundObject(ci, rt, T, newClassFails, newObject)
          IN ClsResult(r.c, "construct", rt, T, r.obj, r.thrown)
    /\ UNCHANGED varsNotCls

\* class_registrar<T>::mark<V>()
ClsMark ==
    /\ ci.last.op = "none"
    /\ \E T \in BoundType :
          /\ ci.marks[T] < MaxMarks
          /\ ci' = [ci EXCEPT !.marks[T] = @ + 1]
    /\ UNCHANGED pending
    /\ UNCHANGED varsNotCls

\* The collector visits the bound object just made.
ClsCollect ==
    /\ ci.last.op \in {"wrap", "construct"}
    /\ ci.last.obj
    /\ ci' = [ci EXCEPT !.last.op = "collect",
                        !.last.reported = MarkedMembers(ci, ci.last.rt, ci.last.T)]
    /\ UNCHANGED pending
    /\ UNCHANGED varsNotCls

\* The caller goes on.
ClsDone ==
    /\ ci.last.op # "none"
    /\ ci' = [ci EXCEPT !.last = NoClassOp]
    /\ UNCHANGED pending
    /\ UNCHANGED varsNotCls

NextCls ==
    \/ ClsRegister
    \/ ClsCastEnable
    \/ ClsWrap
    \/ ClsConstruct
    \/ ClsMark
    \/ ClsCollect
    \/ ClsDone
    \/ GetException

\* ---- C16 -----------------------------------------------------------------

\* C16: the class id of T is 0 as long as T was not wrapped, cast-enabled,
\* registered or constructed, and once it is not 0 no step changes it, in
\* whichever runtime the step is made.
C16_IdentityAssignedOnce ==
    /\ [](\A T \in BoundType : ~ci.touched[T] => ci.id[T] = InvalidClassId)
    /\ [][\A T \in BoundType : ci.id[T] # InvalidClassId => ci'.id[T] = ci.id[T]]_vars

\* T has an id and its class is installed in two runtimes.
C16_Witness ==
    \E T \in BoundType :
       /\ ci.id[T] # InvalidClassId
       /\ \A rt \in Runtime : ci.classes[rt][ci.id[T]].T = T

\* ---- C20 -----------------------------------------------------------------

\* T's class is installed in runtime rt.
Installed(rt, T) ==
    /\ ci.id[T] # InvalidClassId
    /\ ci.classes[rt][ci.id[T]].T = T

\* C20: an installed class of T has a gc_mark exactly when T has a mark
\* offset, and the collector's visit of a bound object of T reports every
\* mark offset of T.
C20_MarkerIffOffsets ==
    /\ \A rt \in Runtime, T \in BoundType :
          Installed(rt, T) => (ci.classes[rt][ci.id[T]].marker <=> ci.marks[T] > 0)
    /\ ci.last.op = "collect" => ci.last.reported = 1 .. ci.marks[ci.last.T]

\* What holds instead: the gc_mark was chosen from the offsets there were
\* when the class was installed, so a class with a gc_mark has offsets,
\* and a gc_mark that runs reports all offsets there are now.
C20_MarkerImpliesOffsets ==
    /\ \A rt \in Runtime, T \in BoundType :
          Installed(rt, T) /\ ci.classes[rt][ci.id[T]].marker => ci.marks[T] > 0
    /\ (/\ ci.last.op = "collect"
        /\ Installed(ci.last.rt, ci.last.T)
        /\ ci.classes[ci.last.rt][ci.id[ci.last.T]].marker)
          => ci.last.reported = 1 .. ci.marks[ci.last.T]

\* ---- C28 -----------------------------------------------------------------

\* C28: when wrap or a constructor call has made a bound object of T in a
\* runtime, T's class is installed in that runtime.
C28_InstalledWhenBound ==
    ci.last.op \in {"wrap", "construct"} /\ ci.last.obj =>
       Installed(ci.last.rt, ci.last.T)

\* What holds instead: T's class is installed when T had no class id before
\* the call and the id it was given is not the id of another type.
C28_InstalledOnFirstUse ==
    (/\ ci.last.op \in {"wrap", "construct"}
     /\ ci.last.obj
     /\ ci.last.fresh
     /\ \A U \in BoundType \ {ci.last.T} : ci.id[U] # ci.id[ci.last.T])
       => Installed(ci.last.rt, ci.last.T)

---------------------------------------------------------------------------
(***************************************************************************)
(* Shared ownership of native instances by bound objects                   *)
(*                                                                         *)
(* A native instance made by std::make_shared<T> has one control block;    *)
(* native holders and the opaque slots of bound objects own references     *)
(* to it.  The block's use count is kept apart from the owners, so that    *)
(* the two can be compared.                                                *)
(***************************************************************************)

MaxNative == 2
MaxObjects == 2

\* T's class in the runtime the objects are made in: no class id yet, a
\* class id only (from ensure_can_cast_to_base, or from a registration in
\* another runtime), or the class installed by register_class.
ClassState == {"none", "id", "installed"}

\* register_class(ctx): the id is allocated, then JS_NewClass installs the
\* class unless it fails.
RegisterOwned(reg, newClassFails) ==
    IF reg = "installed" THEN [reg |-> reg, thrown |-> FALSE]
    ELSE IF newClassFails THEN [reg |-> "id", thrown |-> TRUE]
    ELSE [reg |-> "installed", thrown |-> FALSE]


NoBlock == [made |-> FALSE, count |-> 0, destroyed |-> 0]

\* std::make_shared<T>(): the block with one owner.
MakeShared == [made |-> TRUE, count |-> 1, destroyed |-> 0]

\* Copy construction and destruction of a std::shared_ptr<T>: the owner
\* that brings the use count to zero destroys the instance.
SharedCopy(b) == [b EXCEPT !.count = @ + 1]
SharedRelease(b) ==
    [b EXCEPT !.count = @ - 1,
              !.destroyed = IF b.count = 1 THEN @ + 1 ELSE @]

\* The finalizer of the class: delete static_cast<std::shared_ptr<T>*>(
\* JS_GetOpaque(val, qjs_class_id)) releases the slot's reference.
SlotKept(b) == b
SlotFinalizer(b) == SharedRelease(b)

\* js_traits<std::shared_ptr<T>>::wrap(ctx, val) with val a copy of a
\* holder's pointer to instance p: the parameter is moved into the new
\* object's slot, or destroyed on return when no object was made.
WrapOwned(o, p, newClassFails, newObject) ==
    LET r == IF o.reg = "none" THEN RegisterOwned(o.reg, newClassFails)
             ELSE [reg |-> o.reg, thrown |-> FALSE]
        param == [o EXCEPT !.blocks[p] = SharedCopy(@), !.reg = r.reg]
        dropped == [param EXCEPT !.blocks[p] = SharedRelease(@)]
    IN IF r.thrown THEN [ret |-> "thrown", pend |-> "InternalError", o |-> dropped]
       ELSE IF newObject = "exception"
       THEN [ret |-> "exception", pend |-> "InternalError", o |-> dropped]
       ELSE [ret |-> "object", pend |-> "none",
             o |-> [param EXCEPT !.objs =
                       Append(@, [inst |-> p, finalized |-> FALSE,
                                  finalizer |-> r.reg = "installed"])]]

\* js_traits<std::shared_ptr<T>>::unwrap(ctx, val) of a bound object of
\* class T: a copy of the slot's pointer, kept by a native holder.
UnwrapOwned(o, i) ==
    LET p == o.objs[i].inst
    IN [o EXCEPT !.blocks[p] = SharedCopy(@), !.native[p] = @ + 1]

\* The owners of instance p: native holders and slots of bound objects
\* that are not finalized.
SlotsOf(o, p) == {i \in 1 .. Len(o.objs) : o.objs[i].inst = p /\ ~o.objs[i].finalized}
OwnersOf(o, p) == o.native[p] + Cardinality(SlotsOf(o, p))

InitOwn ==
    ow = [blocks |-> [p \in Pointee |-> NoBlock],
          native |-> [p \in Pointee |-> 0],
          objs |-> <<>>,
          reg |-> "none",
          last |-> "none"]

\* std::make_shared<T>() in native code
OwnMake ==
    /\ ow.last = "none"
    /\ \E p \in Pointee :
          /\ ~ow.blocks[p].made
          /\ ow' = [ow EXCEPT !.blocks[p] = MakeShared, !.native[p] = 1]
    /\ UNCHANGED pending
    /\ UNCHANGED varsNotOwn

\* wrap<std::shared_ptr<T>>(ctx, ptr) of a holder's pointer
OwnWrap ==
    /\ ow.last = "none"
    /\ pending = "none"
    /\ Len(ow.objs) < MaxObjects
    /\ \E p \in Pointee, newClassFails \in BOOLEAN, newObject \in NewObjectOutcome :
          /\ ow.native[p] > 0
          /\ LET r == WrapOwned(ow, p, newClassFails, newObject)
             IN /\ ow' = [r.o EXCEPT !.last = r.ret]
                /\ pending' = r.pend
    /\ UNCHANGED varsNotOwn

\* unwrap<std::shared_ptr<T>>(ctx, val) of a bound object; the caller
\* keeps the pointer.
OwnUnwrap ==
    /\ ow.last = "none"
    /\ pending = "none"
    /\ \E i \in 1 .. Len(ow.objs) :
          /\ ~ow.objs[i].finalized
          /\ ow.native[ow.objs[i].inst] < MaxNative
          /\ ow' = [UnwrapOwned(ow, i) EXCEPT !.last = "pointer"]
    /\ UNCHANGED pending
    /\ UNCHANGED varsNotOwn

\* A native holder destroys its pointer.
OwnDrop ==
    /\ ow.last = "none"
    /\ \E p \in Pointee :
          /\ ow.native[p] > 0
          /\ ow' = [ow EXCEPT !.blocks[p] = SharedRelease(@), !.native[p] = @ - 1]
    /\ UNCHANGED pending
    /\ UNCHANGED varsNotOwn

\* The engine frees a bound object and runs the finalizer of its class,
\* when the class has one.
OwnFinalize ==
    /\ ow.last = "none"
    /\ \E i \in 1 .. Len(ow.objs) :
          /\ ~ow.objs[i].finalized
          /\ ow' = [ow EXCEPT !.blocks[ow.objs[i].inst] =
                                  IF ow.objs[i].finalizer THEN SlotFinalizer(@) ELSE @,
                              !.objs[i].finalized = TRUE]
    /\ UNCHANGED pending
    /\ UNCHANGED varsNotOwn

\* ensure_can_cast_to_base<B>(ctx) for a base B of T, or a registration
\* of T in another runtime: T has a class id afterwards.
OwnCastEnable ==
    /\ ow.last = "none"
    /\ ow.reg = "none"
    /\ ow' = [ow EXCEPT !.reg = "id"]
    /\ UNCHANGED pending
    /\ UNCHANGED varsNotOwn

\* context::register_class<T>(name, proto)
OwnRegister ==
    /\ ow.last = "none"
    /\ pending = "none"
    /\ ow.reg # "installed"
    /\ \E newClassFails \in BOOLEAN :
          LET r == RegisterOwned(ow.reg, newClassFails)
          IN /\ ow' = [ow EXCEPT !.reg = r.reg,
                                 !.last = IF r.thrown THEN "thrown" ELSE "registered"]
             /\ pending' = IF r.thrown THEN "InternalError" ELSE pending
    /\ UNCHANGED varsNotOwn

\* The caller is done with the result.
OwnReturned ==
    /\ ow.last # "none"
    /\ ow' = [ow EXCEPT !.last = "none"]
    /\ UNCHANGED pending
    /\ UNCHANGED varsNotOwn

NextOwn ==
    \/ OwnMake
    \/ OwnWrap
    \/ OwnUnwrap
    \/ OwnDrop
    \/ OwnFinalize
    \/ OwnCastEnable
    \/ OwnRegister
    \/ OwnReturned
    \/ GetException

\* ---- C21 -----------------------------------------------------------------

\* Instance p is owned as its use count says, and is destroyed once when
\* no owner is left, not before and not twice.
OwnedAsCounted(p) ==
    /\ ow.blocks[p].count = OwnersOf(ow, p)
    /\ ow.blocks[p].destroyed =
          (IF ow.blocks[p].made /\ OwnersOf(ow, p) = 0 THEN 1 ELSE 0)

\* C21: the use count of an instance is the number of its native holders
\* plus one for each bound object of it that the engine has not freed (a
\* bound object owns one reference until its finalizer runs, and the
\* finalizer releases that one); the instance is destroyed once when no
\* owner is left, and not before and not twice.
C21_SharedOwnership == \A p \in Pointee : OwnedAsCounted(p)

\* What holds instead: the same, for the instances whose bound objects all
\* have a class with the finalizer.
C21_WithFinalizer ==
    \A p \in Pointee :
       (\A i \in 1 .. Len(ow.objs) : ow.objs[i].inst = p => ow.objs[i].finalizer)
          => OwnedAsCounted(p)

\* An instance shared by two bound objects was destroyed by the finalizer
\* of the last of them, after the native holders had gone.
C21_Destroyed ==
    \E p \in Pointee :
       /\ ow.blocks[p].destroyed = 1
       /\ ow.native[p] = 0
       /\ Cardinality({i \in 1 .. Len(ow.objs) :
              ow.objs[i].inst = p /\ ow.objs[i].finalized /\ ow.objs[i].finalizer}) = 2

---------------------------------------------------------------------------
(***************************************************************************)
(* runtime::promise_rejection_tracker                                      *)
(*                                                                         *)
(* The engine calls the host's tracker with is_handled = false when a      *)
(* promise without a rejection handler is rejected, and with is_handled =  *)
(* true when a handler is attached to such a promise afterwards.           *)
(***************************************************************************)

NumPromises == 3
Promise == 1 .. NumPromises

\* runtime::promise_rejection_tracker(ctx, promise, reason, is_handled,
\* opaque): whether on_unhandled_promise_rejection is invoked.
PromiseRejectionTracker(hasCallback, is_handled) == hasCallback

NoTracking == [op |-> "none", promise |-> 1, is_handled |-> FALSE, invoked |-> FALSE]

InitRej ==
    rj = [hasCallback |-> FALSE,
          state |-> [p \in Promise |-> "pending"],
          calls |-> [p \in Promise |-> 0],
          last |-> NoTracking]

Tracked(p, is_handled, state) ==
    LET invoked == PromiseRejectionTracker(rj.hasCallback, is_handled)
    IN rj' = [rj EXCEPT !.state[p] = state,
                        !.calls[p] = IF invoked THEN @ + 1 ELSE @,
                        !.last = [op |-> "tracker", promise |-> p,
                                  is_handled |-> is_handled, invoked |-> invoked]]

\* The embedder assigns context::on_unhandled_promise_rejection, or
\* clears it.
SetRejectionCallback ==
    /\ rj.last.op = "none"
    /\ rj' = [rj EXCEPT !.hasCallback = ~@]
    /\ UNCHANGED pending
    /\ UNCHANGED varsNotRej

\* A promise with no rejection handler is rejected.
RejectUnhandled ==
    /\ rj.last.op = "none"
    /\ \E p \in Promise :
          /\ rj.state[p] = "pending"
          /\ Tracked(p, FALSE, "rejected")
    /\ UNCHANGED pending
    /\ UNCHANGED varsNotRej

\* A handler is attached to a promise that was rejected without one.
HandleLater ==
    /\ rj.last.op = "none"
    /\ \E p \in Promise :
          /\ rj.state[p] = "rejected"
          /\ Tracked(p, TRUE, "handled")
    /\ UNCHANGED pending
    /\ UNCHANGED varsNotRej

\* The tracker returned to the engine.
TrackerReturned ==
    /\ rj.last.op # "none"
    /\ rj' = [rj EXCEPT !.last = NoTracking]
    /\ UNCHANGED pending
    /\ UNCHANGED varsNotRej

NextRej ==
    \/ SetRejectionCallback
    \/ RejectUnhandled
    \/ HandleLater
    \/ TrackerReturned

\* ---- C22 -----------------------------------------------------------------

\* C22: when the engine reports a rejection with is_handled = true, the
\* callback on_unhandled_promise_rejection is not invoked.
C22_NotWhenHandled ==
    rj.last.op = "tracker" /\ rj.last.is_handled => ~rj.last.invoked

\* What holds instead: the callback is invoked for every report of the
\* engine while a callback is set, whatever is_handled is.
C22_EveryReport ==
    rj.last.op = "tracker" => (rj.last.invoked <=> rj.hasCallback)

---------------------------------------------------------------------------
(***************************************************************************)
(* qjs::exception and context::get_exception                               *)
(*                                                                         *)
(* The runtime's pending exception is the variable pending; "none" stands  *)
(* for the value the engine keeps when no exception is pending.            *)
(***************************************************************************)

MaxExceptions == 2
MaxCalls == 2
ErrorKind == {"TypeError", "RangeError", "InternalError"}

\* exception(JSContext* ctx, std::source_location loc): m_ctx and
\* m_location are stored; the object keeps no value.
NewException == [calls |-> 0, value |-> "none"]

\* JS_GetException(ctx): the pending exception is returned and the
\* runtime is left with none.
PeekException(p) == [ret |-> p, pend |-> p]
JsGetException(p) == [ret |-> p, pend |-> "none"]

\* exception::get_value() is get_context().get_exception(), which is
\* value(ctx, JS_GetException(ctx)).
GetValue(p) == JsGetException(p)

NoExcOp == [op |-> "none", prev |-> "none", before |-> "none", ret |-> "none"]

InitExc == ex = [objs |-> <<>>, last |-> NoExcOp]

\* The engine, or a JS_Throw* call of the library, makes an exception
\* pending.
ExcThrow ==
    /\ \E e \in ErrorKind :
          /\ pending # e
          /\ pending' = e
    /\ ex' = [ex EXCEPT !.last = [op |-> "throw", prev |-> ex.last.op,
                                  before |-> pending, ret |-> "none"]]
    /\ UNCHANGED varsNotExc

\* throw exception(ctx), wherever the library does it
ExcConstruct ==
    /\ Len(ex.objs) < MaxExceptions
    /\ ex' = [objs |-> Append(ex.objs, NewException),
              last |-> [op |-> "construct", prev |-> ex.last.op,
                        before |-> pending, ret |-> "none"]]
    /\ UNCHANGED pending
    /\ UNCHANGED varsNotExc

\* e.get_value() on a caught exception
ExcGetValue ==
    /\ \E i \in 1 .. Len(ex.objs) :
          /\ ex.objs[i].calls < MaxCalls
          /\ LET r == GetValue(pending)
             IN /\ ex' = [objs |-> [ex.objs EXCEPT ![i] = [calls |-> @.calls + 1,
                                                            value |-> r.ret]],
                          last |-> [op |-> "get_value", prev |-> ex.last.op,
                                    before |-> pending, ret |-> r.ret]]
                /\ pending' = r.pend
    /\ UNCHANGED varsNotExc

NextExc ==
    \/ ExcThrow
    \/ ExcConstruct
    \/ ExcGetValue

\* ---- C23 -----------------------------------------------------------------

\* C23: constructing an exception leaves the pending exception as it was;
\* get_value returns the exception pending at the call and leaves none
\* pending, so a get_value that follows another get_value returns no
\* exception value.
C23_GetValue ==
    /\ ex.last.op = "construct" => pending = ex.last.before
    /\ ex.last.op = "get_value" => ex.last.ret = ex.last.before /\ pending = "none"
    /\ ex.last.op = "get_value" /\ ex.last.prev = "get_value" => ex.last.ret = "none"

\* get_value was called twice in a row, the second time on an exception
\* object that had been asked before: the second call returned no value.
C23_Witness ==
    /\ ex.last.op = "get_value"
    /\ ex.last.prev = "get_value"
    /\ \E i \in 1 .. Len(ex.objs) : ex.objs[i].calls = 2 /\ ex.objs[i].value = "none"

---------------------------------------------------------------------------
(***************************************************************************)
(* value::invoke_then and the job queue                                    *)
(*                                                                         *)
(* Every call of invoke_then is recorded with the number of times its      *)
(* callback was invoked.  A call on a pending promise leaves a closure in  *)
(* the promise's reactions; fulfilling the promise enqueues one job per    *)
(* reaction, and runtime::execute_pending_job runs the first job.          *)
(***************************************************************************)

NumThenPromises == 2
MaxThen == 2
ThenPromise == 1 .. NumThenPromises
ThenValue == {JsNum(1), JsSymbol}

\* What invoke_then is called on: a promise, a plain function returning
\* val, an async function (it returns a promise), or a value that is
\* neither a promise nor callable.
ThenTarget ==
    [kind : {"promise", "async"}, p : ThenPromise, val : {JsNum(1)}]
        \cup [kind : {"function"}, p : {1}, val : ThenValue]
        \cup [kind : {"other"}, p : {1}, val : {JsNum(1)}]

\* The callback is called with the result converted to R, or with nothing
\* when R is void.
ResultConverts(R, val) == R = "void" \/ UnwrapInteger(R, val).ok
CallbackArg(R, val) == IF R = "void" THEN NoNative ELSE UnwrapInteger(R, val).nat

ThenCall(p, R, mode, invoked, arg) ==
    [p |-> p, R |-> R, mode |-> mode, invoked |-> invoked, arg |-> arg]

\* callback(...) on the result at hand: the conversion comes first and
\* throws when it fails.
InvokeCallback(p, R, val) ==
    IF ResultConverts(R, val)
    THEN [call |-> ThenCall(p, R, "sync", 1, CallbackArg(R, val)), pend |-> "none"]
    ELSE [call |-> ThenCall(p, R, "thrown", 0, NoNative),
          pend |-> UnwrapInteger(R, val).err]

\* invoke_then<R>(callback) on a promise, by JS_PromiseState: pending (a
\* closure is made and passed to then), fulfilled (the callback is called
\* with JS_PromiseResult), rejected (JS_IsFunction is false:
\* std::runtime_error).
ThenOnPromise(promises, p, R) ==
    CASE promises[p].state = "pending" ->
            [call |-> ThenCall(p, R, "registered", 0, NoNative), pend |-> "none"]
      [] promises[p].state = "fulfilled" -> InvokeCallback(p, R, promises[p].result)
      [] OTHER ->
            [call |-> ThenCall(p, R, "runtime_error", 0, NoNative), pend |-> "none"]

\* invoke_then<R>(callback, args...) on any target.  A function is called
\* first; the result of an async function is a promise, on which
\* invoke_then is called again.
InvokeThen(promises, target, R) ==
    CASE target.kind = "promise" -> ThenOnPromise(promises, target.p, R)
      [] target.kind = "async" -> ThenOnPromise(promises, target.p, R)
      [] target.kind = "function" -> InvokeCallback(0, R, target.val)
      [] OTHER -> [call |-> ThenCall(0, R, "runtime_error", 0, NoNative), pend |-> "none"]

\* The closures in the reactions of promise p, in the order of the calls.
Reactions(calls, p) ==
    SelectSeq([i \in 1 .. Len(calls) |-> i],
              LAMBDA i : calls[i].p = p /\ calls[i].mode = "registered")

NoThenOp == [op |-> "none", call |-> 0, kind |-> "none"]

InitThen ==
    th = [promises |-> [p \in ThenPromise |-> [state |-> "pending", result |-> JsNull]],
          calls |-> <<>>,
          jobs |-> <<>>,
          dead |-> FALSE,
          last |-> NoThenOp]

\* v.invoke_then<R>(callback, args...)
DoInvokeThen ==
    /\ ~th.dead
    /\ th.last.op = "none"
    /\ pending = "none"
    /\ Len(th.calls) < MaxThen
    /\ \E target \in ThenTarget, R \in ThenResult :
          LET r == InvokeThen(th.promises, target, R)
          IN /\ th' = [th EXCEPT !.calls = Append(@, r.call),
                                 !.last = [op |-> "invoke_then", call |-> Len(th.calls) + 1,
                                           kind |-> target.kind]]
             /\ pending' = r.pend
    /\ UNCHANGED varsNotThen

\* The promise is fulfilled: one job per reaction.
FulfillPromise ==
    /\ ~th.dead
    /\ th.last.op = "none"
    /\ \E p \in ThenPromise, val \in ThenValue :
          /\ th.promises[p].state = "pending"
          /\ th' = [th EXCEPT !.promises[p] = [state |-> "fulfilled", result |-> val],
                              !.jobs = @ \o Reactions(th.calls, p)]
    /\ UNCHANGED pending
    /\ UNCHANGED varsNotThen

\* The promise is rejected: the closures are fulfillment reactions and are
\* not called.
RejectPromise ==
    /\ ~th.dead
    /\ th.last.op = "none"
    /\ \E p \in ThenPromise :
          /\ th.promises[p].state = "pending"
          /\ th' = [th EXCEPT !.promises[p] = [state |-> "rejected", result |-> JsNull]]
    /\ UNCHANGED pending
    /\ UNCHANGED varsNotThen

\* runtime::execute_pending_job() with a job pending: the engine calls the
\* closure of the first job with the promise's result in argv[0].  The
\* closure converts the result and calls the callback; a conversion that
\* throws leaves the closure through the engine's frames.
ThenExecuteJob ==
    /\ ~th.dead
    /\ th.last.op = "none"
    /\ pending = "none"
    /\ th.jobs # <<>>
    /\ LET c == Head(th.jobs)
           R == th.calls[c].R
           val == th.promises[th.calls[c].p].result
       IN \E ub \in EscapeOutcome :
             LET out == ThenClosure(R, val, "none", ub)
                 r == InvokeCallback(th.calls[c].p, R, val)
             IN /\ th' = [th EXCEPT !.jobs = Tail(@),
                                    !.calls[c].invoked =
                                       IF out.disp = "returned" THEN @ + r.call.invoked ELSE @,
                                    !.calls[c].arg =
                                       IF out.disp = "returned" THEN r.call.arg ELSE @,
                                    !.dead = out.disp = "terminated",
                                    !.last = [op |-> "job", call |-> c, kind |-> "none"]]
                /\ pending' = IF out.disp = "returned" THEN pending ELSE r.pend
    /\ UNCHANGED varsNotThen

\* The caller goes on.
ThenReturned ==
    /\ th.last.op # "none"
    /\ th' = [th EXCEPT !.last = NoThenOp]
    /\ UNCHANGED pending
    /\ UNCHANGED varsNotThen

NextThen ==
    \/ DoInvokeThen
    \/ FulfillPromise
    \/ RejectPromise
    \/ ThenExecuteJob
    \/ ThenReturned
    \/ GetException

\* ---- C24 -----------------------------------------------------------------

IsCall(c) == c <= Len(th.calls)
OnPromise(c, state) ==
    /\ IsCall(c)
    /\ th.calls[c].p # 0
    /\ th.promises[th.calls[c].p].state = state
JustCalled(c) == th.last.op = "invoke_then" /\ th.last.call = c
ResultOf(c) == th.promises[th.calls[c].p].result
InvokedOnceWith(c) ==
    /\ IsCall(c)
    /\ th.calls[c].p # 0
    /\ th.calls[c].invoked = 1
    /\ th.calls[c].arg = CallbackArg(th.calls[c].R, ResultOf(c))

\* No callback is invoked twice; a call on a pending promise returns with
\* the callback not invoked, and it stays so while the promise is pending;
\* a call on a rejected promise or on a value that is not callable ends in
\* the native error with the callback not invoked.
ThenSafety ==
    \A c \in 1 .. MaxThen :
       IsCall(c) =>
          /\ th.calls[c].invoked <= 1
          /\ OnPromise(c, "pending") =>
                th.calls[c].mode = "registered" /\ th.calls[c].invoked = 0
          /\ JustCalled(c) /\ OnPromise(c, "rejected") => th.calls[c].mode = "runtime_error"
          /\ JustCalled(c) /\ th.last.kind = "other" => th.calls[c].mode = "runtime_error"
          /\ th.calls[c].mode = "runtime_error" => th.calls[c].invoked = 0

\* C24: as ThenSafety; a call on a fulfilled promise that returns has
\* invoked the callback once with the converted result; and a call
\* made on a pending promise has its callback invoked once with the
\* converted result after the promise is fulfilled, the embedder executing
\* pending jobs until none remain.
C24_InvokeThen ==
    /\ []ThenSafety
    /\ \A c \in 1 .. MaxThen :
          /\ [](JustCalled(c) /\ OnPromise(c, "fulfilled") /\ th.calls[c].mode # "thrown"
                   => InvokedOnceWith(c))
          /\ (OnPromise(c, "fulfilled") /\ th.calls[c].mode = "registered")
                ~> InvokedOnceWith(c)

\* What holds instead.  Where the result converts to R the callback is
\* invoked as claimed, unless the process was terminated by a closure whose
\* conversion threw; where the result does not convert, the callback is
\* not invoked, and the call on the fulfilled promise fails with the error
\* of the conversion.
C24_ConvertibleResult ==
    /\ []ThenSafety
    /\ \A c \in 1 .. MaxThen :
          /\ [](JustCalled(c) /\ OnPromise(c, "fulfilled") =>
                   IF ResultConverts(th.calls[c].R, ResultOf(c))
                   THEN InvokedOnceWith(c)
                   ELSE th.calls[c].mode = "thrown" /\ th.calls[c].invoked = 0)
          /\ [](OnPromise(c, "fulfilled") /\ ~ResultConverts(th.calls[c].R, ResultOf(c)) =>
                   th.calls[c].invoked = 0)
          /\ (/\ OnPromise(c, "fulfilled")
              /\ th.calls[c].mode = "registered"
              /\ ResultConverts(th.calls[c].R, ResultOf(c)))
                ~> (InvokedOnceWith(c) \/ th.dead)

\* A callback registered on a pending promise was invoked by a job with
\* the converted result, after the promise was fulfilled.
ThenInvokedByJob ==
    \E c \in 1 .. MaxThen :
       /\ IsCall(c)
       /\ th.calls[c].mode = "registered"
       /\ th.calls[c].R = "int32"
       /\ th.last.op = "job"
       /\ th.last.call = c
       /\ InvokedOnceWith(c)

---------------------------------------------------------------------------
(***************************************************************************)
(* context::enqueue_job and runtime::execute_pending_job                   *)
(*                                                                         *)
(* The runtime's job queue holds the jobs of the engine (promise           *)
(* reactions) and the jobs enqueue_job adds, each a native callable        *)
(* identified by the number of the enqueue_job call.                       *)
(***************************************************************************)

MaxJobs == 4
MaxEnqueued == 3
EngineJob == 0

\* js_traits<std::function<R(Args...)>>::wrap(ctx, std::move(val))
WrapStdFunction(job) == Thrown("TypeError")

\* context::enqueue_job(job): the callable is wrapped as a runtime value
\* and JS_EnqueueJob is called with it; a failure of either is thrown.
EnqueueJob(queue, job, enqueueFails) ==
    LET job_val == WrapStdFunction(job)
    IN IF ~job_val.ok THEN [queue |-> queue, thrown |-> TRUE, pend |-> job_val.err]
       ELSE IF enqueueFails THEN [queue |-> queue, thrown |-> TRUE, pend |-> "InternalError"]
       ELSE [queue |-> Append(queue, job), thrown |-> FALSE, pend |-> "none"]

\* runtime::is_job_pending()
IsJobPending(queue) == queue # <<>>

\* runtime::execute_pending_job(): nullptr when JS_ExecutePendingJob finds
\* no job, an exception when the job failed, the job's context otherwise.
ExecutePendingJob(queue, jobFails) ==
    IF queue = <<>> THEN [queue |-> queue, ret |-> "null", ran |-> EngineJob, pend |-> "none"]
    ELSE IF jobFails
    THEN [queue |-> Tail(queue), ret |-> "thrown", ran |-> Head(queue), pend |-> "Error"]
    ELSE [queue |-> Tail(queue), ret |-> "context", ran |-> Head(queue), pend |-> "none"]

NoJobOp == [op |-> "none", job |-> 0, ret |-> "none", was_pending |-> FALSE]

InitJob ==
    jq = [queue |-> <<>>,
          enqueued |-> 0,
          invoked |-> [j \in 1 .. MaxEnqueued |-> 0],
          last |-> NoJobOp]

\* ctx.enqueue_job(job) with a callable of no arguments
DoEnqueueJob ==
    /\ jq.last.op = "none"
    /\ pending = "none"
    /\ jq.enqueued < MaxEnqueued
    /\ Len(jq.queue) < MaxJobs
    /\ \E enqueueFails \in BOOLEAN :
          LET job == jq.enqueued + 1
              r == EnqueueJob(jq.queue, job, enqueueFails)
          IN /\ jq' = [jq EXCEPT !.queue = r.queue,
                                 !.enqueued = job,
                                 !.last = [op |-> "enqueue_job", job |-> job,
                                           ret |-> IF r.thrown THEN "thrown" ELSE "void",
                                           was_pending |-> IsJobPending(jq.queue)]]
             /\ pending' = r.pend
    /\ UNCHANGED varsNotJob

\* The engine enqueues a job of its own (a promise reaction).
EngineEnqueues ==
    /\ jq.last.op = "none"
    /\ Len(jq.queue) < MaxJobs
    /\ jq' = [jq EXCEPT !.queue = Append(@, EngineJob)]
    /\ UNCHANGED pending
    /\ UNCHANGED varsNotJob

\* rt.execute_pending_job()
DoExecutePendingJob ==
    /\ jq.last.op = "none"
    /\ pending = "none"
    /\ \E jobFails \in BOOLEAN :
          LET r == ExecutePendingJob(jq.queue, jobFails)
          IN /\ jq' = [jq EXCEPT !.queue = r.queue,
                                 !.invoked = IF r.ran # EngineJob
                                             THEN [@ EXCEPT ![r.ran] = @ + 1] ELSE @,
                                 !.last = [op |-> "execute_pending_job", job |-> r.ran,
                                           ret |-> r.ret,
                                           was_pending |-> IsJobPending(jq.queue)]]
             /\ pending' = r.pend
    /\ UNCHANGED varsNotJob

\* The caller goes on.
JobReturned ==
    /\ jq.last.op # "none"
    /\ jq' = [jq EXCEPT !.last = NoJobOp]
    /\ UNCHANGED pending
    /\ UNCHANGED varsNotJob

NextJob ==
    \/ DoEnqueueJob
    \/ EngineEnqueues
    \/ DoExecutePendingJob
    \/ JobReturned
    \/ GetException

\* ---- C25 -----------------------------------------------------------------

InQueue(job) == \E i \in 1 .. Len(jq.queue) : jq.queue[i] = job

\* C25: enqueue_job returns with the job in the queue unless JS_EnqueueJob
\* itself failed; a job handed to enqueue_job is in the queue until it was
\* invoked, and is invoked once at most; is_job_pending is true while a job
\* is in the queue; execute_pending_job returns null exactly when no job
\* was pending.
C25_EnqueueJob ==
    /\ jq.last.op = "enqueue_job" =>
          jq.last.ret = "void" \/ pending = "InternalError"
    /\ \A j \in 1 .. MaxEnqueued :
          j <= jq.enqueued /\ ~(jq.last.job = j /\ jq.last.ret = "thrown" /\ jq.last.op = "enqueue_job")
             => (InQueue(j) /\ jq.invoked[j] = 0) \/ (~InQueue(j) /\ jq.invoked[j] = 1)
    /\ jq.last.op = "execute_pending_job" =>
          (jq.last.ret = "null" <=> ~jq.last.was_pending)

\* What holds instead: enqueue_job always throws with a TypeError pending
\* and adds no job; execute_pending_job returns null exactly when no job
\* was pending.
C25_NeverEnqueued ==
    /\ jq.last.op = "enqueue_job" => jq.last.ret = "thrown"
    /\ \A j \in 1 .. MaxEnqueued : ~InQueue(j) /\ jq.invoked[j] = 0
    /\ jq.last.op = "execute_pending_job" =>
          (jq.last.ret = "null" <=> ~jq.last.was_pending)

---------------------------------------------------------------------------
(***************************************************************************)
(* js_traits<std::function<R(Args...)>>::unwrap                            *)
(*                                                                         *)
(* One runtime function, its reference count, and the native callables     *)
(* unwrapped from it.  The callable is a lambda that captures the          *)
(* JSValue func_obj; a std::function copies the lambda member by member    *)
(* and destroys it with no code of the library.                            *)
(***************************************************************************)

MaxUnwraps == 2
MaxCopies == 2
MaxInvocations == 2

\* JS_DupValue / JS_FreeValue on the function: the count, whether the
\* object was freed, and whether it was touched after it was freed.
FnDup(f) == [f EXCEPT !.count = @ + 1]
FnFree(f) ==
    IF f.freed THEN [f EXCEPT !.misused = TRUE]
    ELSE [f EXCEPT !.count = @ - 1, !.freed = f.count = 1]
\* JS_Call(ctx, func_obj, ...)
FnCall(f) == IF f.freed THEN [f EXCEPT !.misused = TRUE] ELSE f

\* unwrap(ctx, val): [ctx, func_obj = JS_DupValue(ctx, val)]
UnwrapFunction(f) ==
    [f |-> FnDup(f), callable |-> [copies |-> 1, calls |-> 0, releases |-> 0]]

\* operator() of the lambda: JS_Call, then JS_FreeValue(ctx, func_obj),
\* then the result is looked at.
InvokeCallable(f, c) ==
    [f |-> FnFree(FnCall(f)),
     callable |-> [c EXCEPT !.calls = @ + 1, !.releases = @ + 1]]

\* The copy constructor and the destructor of the std::function: func_obj
\* is copied as a plain value, and nothing is done with it at the end.
CopyCallable(f, c) == [f |-> f, callable |-> [c EXCEPT !.copies = @ + 1]]
DestroyCallable(f, c) == [f |-> f, callable |-> [c EXCEPT !.copies = @ - 1]]

InitFn ==
    fc = [f |-> [count |-> 1, freed |-> FALSE, misused |-> FALSE],
          others |-> 1,
          callables |-> <<>>,
          last |-> "none"]

FnStep(i, r, op) ==
    fc' = [fc EXCEPT !.f = r.f, !.callables[i] = r.callable, !.last = op]

\* value.as<std::function<R(Args...)>>() on the function
DoUnwrapFunction ==
    /\ fc.last = "none"
    /\ pending = "none"
    /\ ~fc.f.freed
    /\ fc.others > 0
    /\ Len(fc.callables) < MaxUnwraps
    /\ LET r == UnwrapFunction(fc.f)
       IN fc' = [fc EXCEPT !.f = r.f, !.callables = Append(@, r.callable),
                           !.last = "unwrap"]
    /\ UNCHANGED pending
    /\ UNCHANGED varsNotFn

\* cb(args...) on a callable or a copy of it
DoInvokeCallable ==
    /\ fc.last = "none"
    /\ pending = "none"
    /\ \E i \in 1 .. Len(fc.callables) :
          /\ fc.callables[i].copies > 0
          /\ fc.callables[i].calls < MaxInvocations
          /\ FnStep(i, InvokeCallable(fc.f, fc.callables[i]), "invoke")
    /\ UNCHANGED pending
    /\ UNCHANGED varsNotFn

\* auto cb2 = cb
DoCopyCallable ==
    /\ fc.last = "none"
    /\ \E i \in 1 .. Len(fc.callables) :
          /\ fc.callables[i].copies \in 1 .. (MaxCopies - 1)
          /\ FnStep(i, CopyCallable(fc.f, fc.callables[i]), "copy")
    /\ UNCHANGED pending
    /\ UNCHANGED varsNotFn

\* A callable goes out of scope.
DoDestroyCallable ==
    /\ fc.last = "none"
    /\ \E i \in 1 .. Len(fc.callables) :
          /\ fc.callables[i].copies > 0
          /\ FnStep(i, DestroyCallable(fc.f, fc.callables[i]), "destroy")
    /\ UNCHANGED pending
    /\ UNCHANGED varsNotFn

\* The other holder of the function (a variable of the script) lets go
\* of it.
OthersRelease ==
    /\ fc.last = "none"
    /\ fc.others > 0
    /\ fc' = [fc EXCEPT !.f = FnFree(@), !.others = @ - 1, !.last = "release"]
    /\ UNCHANGED pending
    /\ UNCHANGED varsNotFn

\* The caller goes on.
FnReturned ==
    /\ fc.last # "none"
    /\ fc' = [fc EXCEPT !.last = "none"]
    /\ UNCHANGED pending
    /\ UNCHANGED varsNotFn

NextFn ==
    \/ DoUnwrapFunction
    \/ DoInvokeCallable
    \/ DoCopyCallable
    \/ DoDestroyCallable
    \/ OthersRelease
    \/ FnReturned

\* ---- C26 -----------------------------------------------------------------

\* C26: a callable unwrapped from the function holds one reference to it
\* while the callable or a copy of it exists, and has released it once
\* when none exists any more; the function is never touched after it was
\* freed.
C26_OneReference ==
    /\ \A i \in 1 .. Len(fc.callables) :
          fc.callables[i].releases = (IF fc.callables[i].copies > 0 THEN 0 ELSE 1)
    /\ ~fc.f.misused

\* What holds instead: the reference is released by every invocation, and
\* by nothing else.
C26_ReleasedPerCall ==
    \A i \in 1 .. Len(fc.callables) :
       fc.callables[i].releases = fc.callables[i].calls

---------------------------------------------------------------------------
(***************************************************************************)
(* js_traits<Range>::wrap for a mapped container                           *)
(*                                                                         *)
(* For each entry the reference count of the wrapped value is followed:    *)
(* the reference wrap produced, what the property set did with it, and     *)
(* the JS_FreeValue at the end of the loop body.                           *)
(***************************************************************************)

MapKey == <<"a", "b", "c">>
NumMapValues == 2
MapValueType == {"int32", "string"}
\* The native maps wrapped: each key absent (0) or with one of the values.
NativeMap == [1 .. Len(MapKey) -> 0 .. NumMapValues]

\* Whether the runtime value js_traits<V>::wrap gives is reference
\* counted: a number is not, a string is.
HasRefCount(V) == V = "string"

\* js_traits<V>::wrap(ctx, it->second): one reference, owned by the caller.
WrappedValue == [count |-> 1, property |-> FALSE, misused |-> FALSE]

\* JS_FreeValue(ctx, wrapped)
FreeWrapped(V, w) ==
    IF ~HasRefCount(V) THEN w
    ELSE IF w.count = 0 THEN [w EXCEPT !.misused = TRUE]
    ELSE [w EXCEPT !.count = @ - 1]

\* property_traits<K>::set(ctx, result, key, wrapped): JS_SetPropertyStr
\* takes the reference over, and frees the value itself when it fails; a
\* failure is thrown.
PropertySetStr(V, w, fails) ==
    IF fails THEN [w |-> FreeWrapped(V, w), thrown |-> TRUE]
    ELSE [w |-> [w EXCEPT !.property = TRUE], thrown |-> FALSE]

\* The loop of wrap from the i-th key on.
RECURSIVE WrapMapLoop(_, _, _, _, _)
WrapMapLoop(V, m, i, failAt, refs) ==
    IF i > Len(MapKey) THEN [ok |-> TRUE, err |-> "none", refs |-> refs]
    ELSE IF m[i] = 0 THEN WrapMapLoop(V, m, i + 1, failAt, refs)
    ELSE LET s == PropertySetStr(V, WrappedValue, failAt = i)
         IN IF s.thrown
            THEN [ok |-> FALSE, err |-> "TypeError", refs |-> [refs EXCEPT ![i] = s.w]]
            ELSE WrapMapLoop(V, m, i + 1, failAt,
                             [refs EXCEPT ![i] = FreeWrapped(V, s.w)])

NoRefs == [i \in 1 .. Len(MapKey) |-> [count |-> 0, property |-> FALSE, misused |-> FALSE]]

\* js_traits<Range>::wrap(ctx, val)
WrapMap(V, m, failAt) == WrapMapLoop(V, m, 1, failAt, NoRefs)

NoMapWrap == [op |-> "none", V |-> "int32", m |-> [i \in 1 .. Len(MapKey) |-> 0],
              ok |-> TRUE, refs |-> NoRefs]

InitWm == wm = NoMapWrap

\* wrap of a std::map<std::string, V>; the property set of the failAt-th
\* key fails (0: none does).
DoWrapMap ==
    /\ wm.op = "none"
    /\ pending = "none"
    /\ \E V \in MapValueType, m \in NativeMap, failAt \in 0 .. Len(MapKey) :
          /\ failAt # 0 => m[failAt] # 0
          /\ LET r == WrapMap(V, m, failAt)
             IN /\ wm' = [op |-> "wrapMap", V |-> V, m |-> m, ok |-> r.ok, refs |-> r.refs]
                /\ pending' = r.err
    /\ UNCHANGED varsNotWm

\* The caller is done with the result.
WrapMapDone ==
    /\ wm.op # "none"
    /\ wm' = NoMapWrap
    /\ UNCHANGED pending
    /\ UNCHANGED varsNotWm

NextWm ==
    \/ DoWrapMap
    \/ WrapMapDone
    \/ GetException

\* ---- C27 -----------------------------------------------------------------

\* C27: after wrap returned, the value of every entry is held by the
\* property of the result with the one reference wrap produced, which was
\* not released again.
C27_OneReferenceEach ==
    wm.op = "wrapMap" /\ wm.ok =>
       \A i \in 1 .. Len(MapKey) :
          wm.m[i] # 0 =>
             /\ wm.refs[i].property
             /\ wm.refs[i].count = 1
             /\ ~wm.refs[i].misused

\* What holds instead: that is so for values without a reference count;
\* a reference counted value is left with no reference while the property
\* holds it.
C27_ReleasedAgain ==
    wm.op = "wrapMap" /\ wm.ok =>
       \A i \in 1 .. Len(MapKey) :
          wm.m[i] # 0 =>
             /\ wm.refs[i].property
             /\ wm.refs[i].count = (IF HasRefCount(wm.V) THEN 0 ELSE 1)

---------------------------------------------------------------------------
(***************************************************************************)
(* The collector and objects under construction                            *)
(*                                                                         *)
(* The constructor function makes the object of T's class first and sets   *)
(* its opaque slot after the arguments are converted and T is              *)
(* constructed; both can run code of the runtime, and with it the          *)
(* collector.  The class of T is installed, with or without a gc_mark.     *)
(***************************************************************************)

MaxGcObjects == 3
MaxVisits == 2

\* An object of the class: its opaque slot ("empty" until JS_SetOpaque),
\* whether the engine freed it, and how often the gc_mark visited it.  The
\* field read of the state is what the last step read through a slot.
NewClassObject == [slot |-> "empty", freed |-> FALSE, visits |-> 0]

\* What reading through a null pointer ends in.
NullRead == {"fault", "garbage"}

\* The gc_mark of the class: pptr = JS_GetOpaque(val, qjs_class_id);
\* ptr = pptr->get(); then every member of mark_offsets is marked.
Marker(o, ub) ==
    IF o.slot = "empty" THEN [o |-> o, read |-> ub]
    ELSE [o |-> [o EXCEPT !.visits = @ + 1], read |-> "instance"]

\* The finalizer of the class: delete static_cast<std::shared_ptr<T>*>(
\* JS_GetOpaque(val, qjs_class_id)); deleting a null pointer does nothing.
ClassFinalizer(o) ==
    [o |-> [o EXCEPT !.freed = TRUE, !.slot = "empty"],
     read |-> IF o.slot = "empty" THEN "none" ELSE "instance"]

\* JS_SetOpaque(jsobj, new std::shared_ptr<T>(std::move(ptr)))
SetOpaque(o) == [o EXCEPT !.slot = "set"]

InitGc ==
    gc = [marker |-> FALSE,
          objs |-> <<>>,
          read |-> "none",
          dead |-> FALSE,
          last |-> "none"]

Live(i) == ~gc.objs[i].freed
UnderConstruction(i) == Live(i) /\ gc.objs[i].slot = "empty"

\* class_registrar<T>::mark<V>() before the class is installed: the class
\* has a gc_mark.
GcMarkOffset ==
    /\ ~gc.dead
    /\ gc.objs = <<>>
    /\ ~gc.marker
    /\ gc' = [gc EXCEPT !.marker = TRUE, !.read = "none", !.last = "mark"]
    /\ UNCHANGED pending
    /\ UNCHANGED varsNotGc

\* The constructor function up to the try block: the object is made.
GcCtorAllocates ==
    /\ ~gc.dead
    /\ Len(gc.objs) < MaxGcObjects
    /\ gc' = [gc EXCEPT !.objs = Append(@, NewClassObject), !.read = "none",
                        !.last = "allocate"]
    /\ UNCHANGED pending
    /\ UNCHANGED varsNotGc

\* The constructor function sets the slot and returns the object.
GcCtorSetsOpaque ==
    /\ ~gc.dead
    /\ \E i \in 1 .. Len(gc.objs) :
          /\ UnderConstruction(i)
          /\ gc' = [gc EXCEPT !.objs[i] = SetOpaque(@), !.read = "none", !.last = "set"]
    /\ UNCHANGED pending
    /\ UNCHANGED varsNotGc

\* The conversion of the arguments or the constructor of T throws: the
\* handler frees the object, and the engine runs the finalizer.  The
\* engine also frees a bound object nobody refers to any more.
GcFreesObject ==
    /\ ~gc.dead
    /\ \E i \in 1 .. Len(gc.objs) :
          /\ Live(i)
          /\ LET r == ClassFinalizer(gc.objs[i])
             IN gc' = [gc EXCEPT !.objs[i] = r.o,
                                 !.read = r.read,
                                 !.last = "free"]
    /\ UNCHANGED pending
    /\ UNCHANGED varsNotGc

\* The collector runs and calls the gc_mark of the class, when it has one,
\* on an object of the class that is alive.
GcCollectorMarks ==
    /\ ~gc.dead
    /\ gc.marker
    /\ \E i \in 1 .. Len(gc.objs), ub \in NullRead :
          /\ Live(i)
          /\ gc.objs[i].visits < MaxVisits
          /\ LET r == Marker(gc.objs[i], ub)
             IN gc' = [gc EXCEPT !.objs[i] = r.o,
                                 !.read = r.read,
                                 !.dead = r.read = "fault",
                                 !.last = "collect"]
    /\ UNCHANGED pending
    /\ UNCHANGED varsNotGc

NextGc ==
    \/ GcMarkOffset
    \/ GcCtorAllocates
    \/ GcCtorSetsOpaque
    \/ GcFreesObject
    \/ GcCollectorMarks

\* ---- C30 -----------------------------------------------------------------

\* C30: neither the gc_mark nor the finalizer ever reads through an empty
\* opaque slot: what the last step read, if anything, is a native instance.
C30_NoEmptySlotRead == gc.read \in {"none", "instance"}

\* What holds instead: the finalizer never reads through an empty slot,
\* and without a gc_mark nothing does.
C30_FinalizerOnly ==
    /\ gc.last = "free" => gc.read \in {"none", "instance"}
    /\ ~gc.marker => gc.read \in {"none", "instance"}

---------------------------------------------------------------------------
(***************************************************************************)
(* The specifications: one component runs, the others stay as constructed. *)
(***************************************************************************)

Init ==
    /\ InitValue /\ InitConv /\ InitCall /\ InitReg /\ InitCtor /\ InitPtr
    /\ InitMod
    /\ InitBnd
    /\ InitCn
    /\ InitProp
    /\ InitCls
    /\ InitOwn
    /\ InitRej
    /\ InitExc
    /\ InitThen
    /\ InitJob
    /\ InitFn
    /\ InitWm
    /\ InitGc

SpecValue == Init /\ [][NextValue]_vars

SpecConv == Init /\ [][NextConv]_vars

SpecCall == Init /\ [][NextCall]_vars

SpecReg == Init /\ [][NextReg]_vars

SpecCtor == Init /\ [][NextCtor]_vars

SpecPtr == Init /\ [][NextPtr]_vars

SpecMod == Init /\ [][NextMod]_vars

SpecBnd == Init /\ [][NextBnd]_vars

SpecCn == Init /\ [][NextCn]_vars

SpecProp == Init /\ [][NextProp]_vars

SpecCls == Init /\ [][NextCls]_vars

SpecOwn == Init /\ [][NextOwn]_vars

SpecRej == Init /\ [][NextRej]_vars

SpecExc == Init /\ [][NextExc]_vars

SpecThen == Init /\ [][NextThen]_vars

\* The embedder keeps executing pending jobs.
SpecThenFair ==
    /\ Init
    /\ [][NextThen]_vars
    /\ WF_vars(ThenExecuteJob)
    /\ WF_vars(ThenReturned)
    /\ WF_vars(GetException)

SpecJob == Init /\ [][NextJob]_vars

SpecFn == Init /\ [][NextFn]_vars

SpecWm == Init /\ [][NextWm]_vars

SpecGc == Init /\ [][NextGc]_vars

===========================================================================
